---- MODULE Spec2Model ----
(***************************************************************************)
(* Model of the Move module dao_addr::investdaov2 (src/unnamed/part_000,  *)
(* lines 612-1187): the governance token ledger, the treasury resource     *)
(* account, the proposal life cycle and the transaction outcomes (abort    *)
(* code and emitted events) of its entry functions.                        *)
(*                                                                         *)
(* A Move transaction is atomic: an abort discards every write and every   *)
(* event of the call.  Each entry function is therefore one action that    *)
(* first computes the abort code the body would raise, in the order of the *)
(* body's borrows and assertions, and only applies the writes when that    *)
(* code is OK: an aborted transaction is a step that changes nothing.      *)
(* `result' is the output of the transaction committed by the last step:   *)
(* the entry function, its sender and the events it emitted.               *)
(***************************************************************************)
EXTENDS Integers, Sequences, FiniteSets, TLC

\* ---------------------------------------------------------------- constants
VOTING_PERIOD == 604800
EXECUTION_DELAY == 86400
QUORUM_PERCENTAGE == 20
INITIAL_TOKEN_SUPPLY == 1000000
\* waitForTransaction
maxAttempts == 30

MIN_PROPOSAL_AMOUNT == 1000
PARTICIPATION_REWARD == 10

E_NOT_AUTHORIZED == 1001
E_PROPOSAL_NOT_OPEN == 1002
E_ALREADY_VOTED == 1003
E_VOTING_ENDED == 1004
E_PROPOSAL_NOT_READY == 1006
E_INSUFFICIENT_TOKENS == 1007
E_PROPOSAL_ALREADY_EXECUTED == 1009
E_INSUFFICIENT_FUNDS == 1010
E_DAO_PAUSED == 1011
E_PROPOSAL_TOO_SMALL == 1012
E_INVALID_CATEGORY == 1013

CATEGORY_FUNDING == 0
CATEGORY_GOVERNANCE == 1
CATEGORY_EMERGENCY == 2

\* Proposal status values (comment of InvestmentProposal.status).
STATUS_OPEN == 0
STATUS_FUNDED == 1
STATUS_REJECTED == 2
STATUS_QUORUM_NOT_MET == 4

\* ProposalExecutedEvent.result values.
RESULT_FUNDED == 0
RESULT_REJECTED == 1
RESULT_QUORUM_NOT_MET == 2

\* Outcomes that the Move VM and the framework raise for the module's
\* borrows, move_to, table accesses, coin withdrawals and deposits and u64
\* subtraction.
OK == 0
MISSING_DATA == 4008
RESOURCE_ALREADY_EXISTS == 4004
ERESOURCE_ACCCOUNT_EXISTS == 524303
ARITHMETIC_ERROR == 4017
ECOIN_INSUFFICIENT_BALANCE == 65542
ECOIN_STORE_NOT_PUBLISHED == 393221
ETABLE_NOT_FOUND == 25863

\* ------------------------------------------------------------------- bounds
MaxProposals == 1
MaxTxns == 4
ShortfallProposals == 2
ShortfallTxns == 7
TimelineProposals == 2
TimelineTxns == 3
StakingTxns == 3
PowerTxns == 6
PowerProposals == 2
FoundersTxns == 3
\* Calls and events of the wallet provider in one behaviour of SpecWallet.
MaxWalletCalls == 2
MaxRetried == 1
PauseTxns == 3

LiveProposals == 2
LiveOps == 5

MaxStakes == 2
MaxTransfers == 1
MaxDistributes == 1
MaxDeposits == 1
InitCoin == 1000

\* Senders and arguments of the transactions that are explored.
Users == {"a1", "a2", "a3"}
\* initialize_dao takes any signer: a1 founds the DAO the other operations
\* address, a3 may found a second one.
Founders == {"a1", "a3"}
\* The address account::create_resource_account derives from the source
\* address and the seed: a hash, one address per source and seed.
DaoSeed == "dao"
Seeds == {"dao", "fund"}
create_resource_address(source, seed) ==
    CASE source = "a1" /\ seed = "dao" -> "treasury"
      [] source = "a2" /\ seed = "dao" -> "treasury_a2"
      [] source = "a3" /\ seed = "dao" -> "treasury_a3"
      [] source = "a1" /\ seed = "fund" -> "fund_a1"
      [] source = "a2" /\ seed = "fund" -> "fund_a2"
      [] source = "a3" /\ seed = "fund" -> "fund_a3"
TreasuryAddr == create_resource_address("a1", DaoSeed)
Depositors == {"a2"}
Stakers == {"a2"}
TransferSenders == {"a1", "a2"}
TransferRecipients == {"a2"}
Proposers == {"a1", "a2"}
\* proposal.recipient is any address: "a4" is one that has not registered a
\* CoinStore<AptosCoin>, so a coin::deposit to it aborts.
Recipients == {"a2", TreasuryAddr, "a4"}
Executors == {"a1", "a3"}
Admins == {"a1", "a2"}
DistributeRecipients == {"a2"}
DepositAmounts == {1000}
StakeAmounts == {52, 100, 900}
TransferAmounts == {1000}
DistributeAmounts == {1000}
RequestAmounts == {999, 1000}
Categories == {0, 1, 2, 3}
ProposalIds == 0..ShortfallProposals

VARIABLES daoTreasury, daoMember, coinStore, now, calls, result, wallet

chain == <<daoTreasury, daoMember, coinStore>>
vars == <<daoTreasury, daoMember, coinStore, now, calls, result, wallet>>

\* --------------------------------------------------------- transaction output
Outcome(op, sender, pid, evs) ==
    [op |-> op, sender |-> sender, proposal_id |-> pid, events |-> evs]

NoResult == Outcome("none", "", -1, <<>>)

\* An abort discards the writes and the events of the transaction.
Abort(code) ==
    /\ code # OK
    /\ UNCHANGED <<daoTreasury, daoMember, coinStore, now, calls, result,
                   wallet>>

Commit(op, sender, pid, evs) ==
    /\ result' = Outcome(op, sender, pid, evs)
    /\ UNCHANGED wallet

\* Committed transactions are counted to bound the exploration; `calls' also
\* holds the limits of the specification in force.
Count(op) ==
    /\ calls.total < calls.max_txns
    /\ calls' = IF op \in {"deposit", "stake", "transfer", "distribute"}
                THEN [calls EXCEPT ![op] = @ + 1, !.total = @ + 1]
                ELSE [calls EXCEPT !.total = @ + 1]

\* initialize_dao, join_dao and the two pause switches can only succeed
\* finitely often or return to a state already seen: they are not counted.
Free == calls' = calls

\* ------------------------------------------------------------ pure functions
\* The voting power computed in vote_on_proposal.
\* Variant: the reputation bonus is left out of the voting power.
voting_power_no_bonus(member) == member.governance_tokens.staked_balance

\* Variant: the power is computed after the vote's reputation point.
voting_power_after_reward(member) ==
    member.governance_tokens.staked_balance
        + ((member.reputation_score + 1) \div 10)

voting_power(member) ==
    member.governance_tokens.staked_balance + (member.reputation_score \div 10)

\* The view get_voting_power of a member address.
get_voting_power(member_address) ==
    IF member_address \notin DOMAIN daoMember THEN [abort |-> MISSING_DATA]
    ELSE LET member == daoMember[member_address]
             base_power == member.governance_tokens.staked_balance
             reputation_bonus == member.reputation_score \div 10
         IN [abort |-> OK, value |-> base_power + reputation_bonus]

\* calculate_quorum / the computation inlined in execute_proposal.
\* Variant: the quorum rounded up instead of down.
quorum_required_ceil(treasury) ==
    (treasury.staked_tokens * QUORUM_PERCENTAGE + 99) \div 100

\* Variant: the quorum is computed from staked_tokens as it was before the
\* stake of the latest transaction.
quorum_required_before_stake(treasury) ==
    IF result.op = "stake_tokens"
    THEN ((treasury.staked_tokens - result.events[1].amount)
              * QUORUM_PERCENTAGE) \div 100
    ELSE (treasury.staked_tokens * QUORUM_PERCENTAGE) \div 100

quorum_required(treasury) ==
    (treasury.staked_tokens * QUORUM_PERCENTAGE) \div 100

\* Variant: Emergency proposals get the standard voting period.
voting_duration_uniform(category) == VOTING_PERIOD

voting_duration(category) ==
    IF category = CATEGORY_EMERGENCY THEN VOTING_PERIOD \div 7 ELSE VOTING_PERIOD

\* ------------------------------------------------------------ initialize_dao
\* create_resource_account aborts when the resource account of the sender
\* and the seed exists; the second move_to aborts when the sender has a
\* member record.
initialize_dao_abort(sender, dao_seed) ==
    IF create_resource_address(sender, dao_seed) \in DOMAIN daoTreasury
    THEN ERESOURCE_ACCCOUNT_EXISTS
    ELSE IF sender \in DOMAIN daoMember THEN RESOURCE_ALREADY_EXISTS
    ELSE OK

NewTreasury(sender) ==
    [proposals |-> [i \in {} |-> 0],
     proposal_count |-> 0,
     total_funds |-> 0,
     total_governance_tokens |-> INITIAL_TOKEN_SUPPLY,
     staked_tokens |-> 0,
     admin |-> sender,
     governance_threshold |-> 1000,
     paused |-> FALSE]

FounderMember ==
    [governance_tokens |-> [balance |-> INITIAL_TOKEN_SUPPLY \div 2,
                            staked_balance |-> 0,
                            total_earned |-> INITIAL_TOKEN_SUPPLY \div 2],
     proposals_created |-> 0,
     votes_cast |-> 0,
     reputation_score |-> 100]

initialize_dao(sender, dao_seed) ==
    LET e == initialize_dao_abort(sender, dao_seed)
        treasury_addr == create_resource_address(sender, dao_seed)
    IN
    IF e # OK THEN Abort(e)
    ELSE /\ daoTreasury' =
              daoTreasury @@ (treasury_addr :> NewTreasury(sender))
         /\ coinStore' = coinStore @@ (treasury_addr :> 0)
         /\ daoMember' = daoMember @@ (sender :> FounderMember)
         /\ Commit("initialize_dao", sender, -1, <<>>)
         /\ Free
         /\ UNCHANGED now

\* ------------------------------------------------------------------ join_dao
\* Variant: joining again replaces the member record.
join_dao_abort_rejoin(sender) == OK

join_dao_abort(sender) ==
    IF sender \in DOMAIN daoMember THEN RESOURCE_ALREADY_EXISTS ELSE OK

\* Variant: a new member starts without reputation.
WelcomeMember_unranked ==
    [governance_tokens |-> [balance |-> 100,
                            staked_balance |-> 0,
                            total_earned |-> 100],
     proposals_created |-> 0,
     votes_cast |-> 0,
     reputation_score |-> 0]

WelcomeMember ==
    [governance_tokens |-> [balance |-> 100,
                            staked_balance |-> 0,
                            total_earned |-> 100],
     proposals_created |-> 0,
     votes_cast |-> 0,
     reputation_score |-> 10]

join_dao(sender) ==
    LET e == join_dao_abort(sender) IN
    IF e # OK THEN Abort(e)
    ELSE /\ daoMember' = daoMember @@ (sender :> WelcomeMember)
         /\ Commit("join_dao", sender, -1, <<>>)
         /\ Free
         /\ UNCHANGED <<daoTreasury, coinStore, now>>

\* ------------------------------------------------------------- deposit_funds
\* Variant: deposit_funds without the paused assertion.
deposit_funds_abort_unpaused(sender, addr, amount) ==
    IF addr \notin DOMAIN daoTreasury THEN MISSING_DATA
    ELSE IF sender \notin DOMAIN coinStore THEN ECOIN_STORE_NOT_PUBLISHED
    ELSE IF coinStore[sender] < amount THEN ECOIN_INSUFFICIENT_BALANCE
    ELSE OK

deposit_funds_abort(sender, addr, amount) ==
    IF addr \notin DOMAIN daoTreasury THEN MISSING_DATA
    ELSE IF daoTreasury[addr].paused THEN E_DAO_PAUSED
    ELSE IF sender \notin DOMAIN coinStore THEN ECOIN_STORE_NOT_PUBLISHED
    ELSE IF coinStore[sender] < amount THEN ECOIN_INSUFFICIENT_BALANCE
    ELSE OK

deposit_funds(sender, addr, amount) ==
    LET e == deposit_funds_abort(sender, addr, amount) IN
    IF e # OK THEN Abort(e)
    ELSE /\ calls.deposit < MaxDeposits
         /\ coinStore' = [coinStore EXCEPT ![sender] = @ - amount,
                                           ![addr] = @ + amount]
         /\ daoTreasury' = [daoTreasury EXCEPT ![addr].total_funds = @ + amount]
         /\ Commit("deposit_funds", sender, -1,
                   <<[type |-> "FundsDepositedEvent",
                      depositor |-> sender, amount |-> amount]>>)
         /\ Count("deposit")
         /\ UNCHANGED <<daoMember, now>>

\* -------------------------------------------------------------- stake_tokens
\* Variant: staking the whole balance is refused.
stake_tokens_abort_strict(sender, addr, amount) ==
    IF addr \notin DOMAIN daoTreasury THEN MISSING_DATA
    ELSE IF sender \notin DOMAIN daoMember THEN MISSING_DATA
    ELSE IF daoTreasury[addr].paused THEN E_DAO_PAUSED
    ELSE IF ~(daoMember[sender].governance_tokens.balance > amount)
         THEN E_INSUFFICIENT_TOKENS
    ELSE OK

stake_tokens_abort(sender, addr, amount) ==
    IF addr \notin DOMAIN daoTreasury THEN MISSING_DATA
    ELSE IF sender \notin DOMAIN daoMember THEN MISSING_DATA
    ELSE IF daoTreasury[addr].paused THEN E_DAO_PAUSED
    ELSE IF ~(daoMember[sender].governance_tokens.balance >= amount)
         THEN E_INSUFFICIENT_TOKENS
    ELSE OK

\* Variant: the staked amount leaves the balance and is not credited.
stake_tokens_uncredited(sender, addr, amount) ==
    LET e == stake_tokens_abort(sender, addr, amount) IN
    IF e # OK THEN Abort(e)
    ELSE /\ calls.stake < MaxStakes
         /\ daoMember' = [daoMember EXCEPT
               ![sender].governance_tokens.balance = @ - amount,
               ![sender].reputation_score = @ + (amount \div 100)]
         /\ daoTreasury' = [daoTreasury EXCEPT ![addr].staked_tokens = @ + amount]
         /\ Commit("stake_tokens", sender, -1,
                   <<[type |-> "TokensStakedEvent",
                      staker |-> sender, amount |-> amount]>>)
         /\ Count("stake")
         /\ UNCHANGED <<coinStore, now>>

\* Variant: a stake is not added to the staked_tokens of the treasury.
stake_tokens_untallied(sender, addr, amount) ==
    LET e == stake_tokens_abort(sender, addr, amount) IN
    IF e # OK THEN Abort(e)
    ELSE /\ calls.stake < MaxStakes
         /\ daoMember' = [daoMember EXCEPT
               ![sender].governance_tokens.balance = @ - amount,
               ![sender].governance_tokens.staked_balance = @ + amount,
               ![sender].reputation_score = @ + (amount \div 100)]
         /\ daoTreasury' = daoTreasury
         /\ Commit("stake_tokens", sender, -1,
                   <<[type |-> "TokensStakedEvent",
                      staker |-> sender, amount |-> amount]>>)
         /\ Count("stake")
         /\ UNCHANGED <<coinStore, now>>

stake_tokens(sender, addr, amount) ==
    LET e == stake_tokens_abort(sender, addr, amount) IN
    IF e # OK THEN Abort(e)
    ELSE /\ calls.stake < MaxStakes
         /\ daoMember' = [daoMember EXCEPT
               ![sender].governance_tokens.balance = @ - amount,
               ![sender].governance_tokens.staked_balance = @ + amount,
               ![sender].reputation_score = @ + (amount \div 100)]
         /\ daoTreasury' = [daoTreasury EXCEPT ![addr].staked_tokens = @ + amount]
         /\ Commit("stake_tokens", sender, -1,
                   <<[type |-> "TokensStakedEvent",
                      staker |-> sender, amount |-> amount]>>)
         /\ Count("stake")
         /\ UNCHANGED <<coinStore, now>>

\* ----------------------------------------------------------- transfer_tokens
\* Variant: transfer_tokens without the assertion on the sender's balance.
transfer_tokens_abort_unfunded(sender, recipient, amount) ==
    IF sender \notin DOMAIN daoMember THEN MISSING_DATA
    ELSE IF recipient \notin DOMAIN daoMember THEN MISSING_DATA
    ELSE OK

transfer_tokens_abort(sender, recipient, amount) ==
    IF sender \notin DOMAIN daoMember THEN MISSING_DATA
    ELSE IF ~(daoMember[sender].governance_tokens.balance >= amount)
         THEN E_INSUFFICIENT_TOKENS
    ELSE IF recipient \notin DOMAIN daoMember THEN MISSING_DATA
    ELSE OK

\* Variant: the credit is computed from the record read before the debit.
transfer_tokens_stale(sender, recipient, amount) ==
    LET e == transfer_tokens_abort(sender, recipient, amount) IN
    IF e # OK THEN Abort(e)
    ELSE /\ calls.transfer < MaxTransfers
         /\ daoMember' = [daoMember EXCEPT
               ![sender].governance_tokens.balance = @ - amount,
               ![recipient].governance_tokens.balance =
                   daoMember[recipient].governance_tokens.balance + amount]
         /\ Commit("transfer_tokens", sender, -1, <<>>)
         /\ Count("transfer")
         /\ UNCHANGED <<daoTreasury, coinStore, now>>

\* Variant: the transfer is paid out of the staked balance.
transfer_tokens_from_stake(sender, recipient, amount) ==
    LET e == transfer_tokens_abort(sender, recipient, amount)
        debited == [daoMember EXCEPT
                      ![sender].governance_tokens.staked_balance = @ - amount]
    IN
    IF e # OK THEN Abort(e)
    ELSE /\ calls.transfer < MaxTransfers
         /\ daoMember' = [debited EXCEPT
                            ![recipient].governance_tokens.balance = @ + amount]
         /\ Commit("transfer_tokens", sender, -1, <<>>)
         /\ Count("transfer")
         /\ UNCHANGED <<daoTreasury, coinStore, now>>

transfer_tokens(sender, recipient, amount) ==
    LET e == transfer_tokens_abort(sender, recipient, amount)
        debited == [daoMember EXCEPT
                      ![sender].governance_tokens.balance = @ - amount]
    IN
    IF e # OK THEN Abort(e)
    ELSE /\ calls.transfer < MaxTransfers
         /\ daoMember' = [debited EXCEPT
                            ![recipient].governance_tokens.balance = @ + amount]
         /\ Commit("transfer_tokens", sender, -1, <<>>)
         /\ Count("transfer")
         /\ UNCHANGED <<daoTreasury, coinStore, now>>

\* ------------------------------------------------ create_investment_proposal
\* Variant: the treasury-funds assertion applies to every category.
create_investment_proposal_abort_funds_all(sender, addr, category, requested_amount) ==
    IF addr \notin DOMAIN daoTreasury THEN MISSING_DATA
    ELSE IF sender \notin DOMAIN daoMember THEN MISSING_DATA
    ELSE IF daoTreasury[addr].paused THEN E_DAO_PAUSED
    ELSE IF ~(category <= CATEGORY_EMERGENCY) THEN E_INVALID_CATEGORY
    ELSE IF ~(requested_amount >= MIN_PROPOSAL_AMOUNT) THEN E_PROPOSAL_TOO_SMALL
    ELSE IF ~(daoMember[sender].governance_tokens.balance
                + daoMember[sender].governance_tokens.staked_balance
              >= daoTreasury[addr].governance_threshold)
         THEN E_INSUFFICIENT_TOKENS
    ELSE IF ~(daoTreasury[addr].total_funds >= requested_amount)
         THEN E_INSUFFICIENT_FUNDS
    ELSE OK

create_investment_proposal_abort(sender, addr, category, requested_amount) ==
    IF addr \notin DOMAIN daoTreasury THEN MISSING_DATA
    ELSE IF sender \notin DOMAIN daoMember THEN MISSING_DATA
    ELSE IF daoTreasury[addr].paused THEN E_DAO_PAUSED
    ELSE IF ~(category <= CATEGORY_EMERGENCY) THEN E_INVALID_CATEGORY
    ELSE IF ~(requested_amount >= MIN_PROPOSAL_AMOUNT) THEN E_PROPOSAL_TOO_SMALL
    ELSE IF ~(daoMember[sender].governance_tokens.balance
                + daoMember[sender].governance_tokens.staked_balance
              >= daoTreasury[addr].governance_threshold)
         THEN E_INSUFFICIENT_TOKENS
    ELSE IF category = CATEGORY_FUNDING
            /\ ~(daoTreasury[addr].total_funds >= requested_amount)
         THEN E_INSUFFICIENT_FUNDS
    ELSE OK

\* Variant: a proposal stored with status Funded instead of Open.
NewProposal_resolved(proposal_id, sender, title, description, category, recipient, requested_amount) ==
    [id |-> proposal_id,
     title |-> title,
     description |-> description,
     category |-> category,
     recipient |-> recipient,
     requested_amount |-> requested_amount,
     yes_votes |-> 0,
     no_votes |-> 0,
     proposer |-> sender,
     creation_time |-> now,
     voting_end_time |-> now + voting_duration(category),
     execution_time |-> now + voting_duration(category) + EXECUTION_DELAY,
     status |-> 1,
     voters |-> [a \in {} |-> 0],
     executed |-> FALSE]

\* Variant: the id field is taken after the counter was incremented.
NewProposal_id_off(proposal_id, sender, title, description, category, recipient, requested_amount) ==
    [id |-> proposal_id + 1,
     title |-> title,
     description |-> description,
     category |-> category,
     recipient |-> recipient,
     requested_amount |-> requested_amount,
     yes_votes |-> 0,
     no_votes |-> 0,
     proposer |-> sender,
     creation_time |-> now,
     voting_end_time |-> now + voting_duration(category),
     execution_time |-> now + voting_duration(category) + EXECUTION_DELAY,
     status |-> 0,
     voters |-> [a \in {} |-> 0],
     executed |-> FALSE]

NewProposal(proposal_id, sender, title, description, category, recipient, requested_amount) ==
    LET current_time == now
        voting_end == current_time + voting_duration(category)
        execution_time == voting_end + EXECUTION_DELAY
    IN [id |-> proposal_id,
        title |-> title,
        description |-> description,
        category |-> category,
        recipient |-> recipient,
        requested_amount |-> requested_amount,
        yes_votes |-> 0,
        no_votes |-> 0,
        proposer |-> sender,
        creation_time |-> current_time,
        voting_end_time |-> voting_end,
        execution_time |-> execution_time,
        status |-> 0,
        voters |-> [a \in {} |-> 0],
        executed |-> FALSE]

\* Variant: creating a proposal earns no reputation.
create_investment_proposal_no_credit(sender, addr, title, description, category, recipient, requested_amount) ==
    LET e == create_investment_proposal_abort(sender, addr, category,
                                              requested_amount)
        proposal_id == daoTreasury[addr].proposal_count
        proposal == NewProposal(proposal_id, sender, title, description,
                                category, recipient, requested_amount)
    IN
    IF e # OK THEN Abort(e)
    ELSE /\ proposal_id < calls.max_proposals
         /\ daoTreasury' = [daoTreasury EXCEPT
               ![addr].proposals = @ @@ (proposal_id :> proposal),
               ![addr].proposal_count = proposal_id + 1]
         /\ daoMember' = [daoMember EXCEPT
               ![sender].proposals_created = @ + 1]
         /\ Commit("create_investment_proposal", sender, proposal_id,
                   <<[type |-> "ProposalCreatedEvent",
                      proposal_id |-> proposal_id,
                      proposer |-> sender,
                      title |-> title,
                      category |-> category,
                      requested_amount |-> requested_amount]>>)
         /\ Count("create")
         /\ UNCHANGED <<coinStore, now>>

create_investment_proposal(sender, addr, title, description, category, recipient, requested_amount) ==
    LET e == create_investment_proposal_abort(sender, addr, category,
                                              requested_amount)
        proposal_id == daoTreasury[addr].proposal_count
        proposal == NewProposal(proposal_id, sender, title, description,
                                category, recipient, requested_amount)
    IN
    IF e # OK THEN Abort(e)
    ELSE /\ proposal_id < calls.max_proposals
         /\ daoTreasury' = [daoTreasury EXCEPT
               ![addr].proposals = @ @@ (proposal_id :> proposal),
               ![addr].proposal_count = proposal_id + 1]
         /\ daoMember' = [daoMember EXCEPT
               ![sender].proposals_created = @ + 1,
               ![sender].reputation_score = @ + 5]
         /\ Commit("create_investment_proposal", sender, proposal_id,
                   <<[type |-> "ProposalCreatedEvent",
                      proposal_id |-> proposal_id,
                      proposer |-> sender,
                      title |-> title,
                      category |-> category,
                      requested_amount |-> requested_amount]>>)
         /\ Count("create")
         /\ UNCHANGED <<coinStore, now>>

\* ---------------------------------------------------------- vote_on_proposal
\* Variant: no table::contains assertion on the voter set.
vote_on_proposal_abort_revote(sender, addr, proposal_id) ==
    IF addr \notin DOMAIN daoTreasury THEN MISSING_DATA
    ELSE IF sender \notin DOMAIN daoMember THEN MISSING_DATA
    ELSE IF daoTreasury[addr].paused THEN E_DAO_PAUSED
    ELSE IF proposal_id \notin DOMAIN daoTreasury[addr].proposals
         THEN ETABLE_NOT_FOUND
    ELSE LET proposal == daoTreasury[addr].proposals[proposal_id] IN
         IF ~(proposal.status = 0) THEN E_PROPOSAL_NOT_OPEN
         ELSE IF ~(now <= proposal.voting_end_time) THEN E_VOTING_ENDED
         ELSE IF ~(voting_power(daoMember[sender]) > 0)
              THEN E_INSUFFICIENT_TOKENS
         ELSE OK

\* Variant: no assertion on the status and on the voting period.
vote_on_proposal_abort_unchecked(sender, addr, proposal_id) ==
    IF addr \notin DOMAIN daoTreasury THEN MISSING_DATA
    ELSE IF sender \notin DOMAIN daoMember THEN MISSING_DATA
    ELSE IF daoTreasury[addr].paused THEN E_DAO_PAUSED
    ELSE IF proposal_id \notin DOMAIN daoTreasury[addr].proposals
         THEN ETABLE_NOT_FOUND
    ELSE LET proposal == daoTreasury[addr].proposals[proposal_id] IN
         IF sender \in DOMAIN proposal.voters THEN E_ALREADY_VOTED
         ELSE IF ~(voting_power(daoMember[sender]) > 0)
              THEN E_INSUFFICIENT_TOKENS
         ELSE OK

\* Variant: the voting period excludes voting_end_time itself.
vote_on_proposal_abort_exclusive(sender, addr, proposal_id) ==
    IF addr \notin DOMAIN daoTreasury THEN MISSING_DATA
    ELSE IF sender \notin DOMAIN daoMember THEN MISSING_DATA
    ELSE IF daoTreasury[addr].paused THEN E_DAO_PAUSED
    ELSE IF proposal_id \notin DOMAIN daoTreasury[addr].proposals
         THEN ETABLE_NOT_FOUND
    ELSE LET proposal == daoTreasury[addr].proposals[proposal_id] IN
         IF ~(proposal.status = 0) THEN E_PROPOSAL_NOT_OPEN
         ELSE IF ~(now < proposal.voting_end_time) THEN E_VOTING_ENDED
         ELSE IF sender \in DOMAIN proposal.voters THEN E_ALREADY_VOTED
         ELSE IF ~(voting_power(daoMember[sender]) > 0)
              THEN E_INSUFFICIENT_TOKENS
         ELSE OK

vote_on_proposal_abort(sender, addr, proposal_id) ==
    IF addr \notin DOMAIN daoTreasury THEN MISSING_DATA
    ELSE IF sender \notin DOMAIN daoMember THEN MISSING_DATA
    ELSE IF daoTreasury[addr].paused THEN E_DAO_PAUSED
    ELSE IF proposal_id \notin DOMAIN daoTreasury[addr].proposals
         THEN ETABLE_NOT_FOUND
    ELSE LET proposal == daoTreasury[addr].proposals[proposal_id] IN
         IF ~(proposal.status = 0) THEN E_PROPOSAL_NOT_OPEN
         ELSE IF ~(now <= proposal.voting_end_time) THEN E_VOTING_ENDED
         ELSE IF sender \in DOMAIN proposal.voters THEN E_ALREADY_VOTED
         ELSE IF ~(voting_power(daoMember[sender]) > 0)
              THEN E_INSUFFICIENT_TOKENS
         ELSE OK

\* Variant: the power is added to yes_votes whatever the choice.
vote_on_proposal_always_yes(sender, addr, proposal_id, vote) ==
    LET e == vote_on_proposal_abort(sender, addr, proposal_id)
        power == voting_power(daoMember[sender])
    IN
    IF e # OK THEN Abort(e)
    ELSE /\ daoTreasury' = [daoTreasury EXCEPT
               ![addr].proposals[proposal_id].voters = @ @@ (sender :> power),
               ![addr].proposals[proposal_id].yes_votes = @ + power]
         /\ daoMember' = [daoMember EXCEPT
               ![sender].votes_cast = @ + 1,
               ![sender].governance_tokens.balance = @ + PARTICIPATION_REWARD,
               ![sender].governance_tokens.total_earned = @ + PARTICIPATION_REWARD,
               ![sender].reputation_score = @ + 1]
         /\ Commit("vote_on_proposal", sender, proposal_id,
                   <<[type |-> "VoteCastEvent",
                      proposal_id |-> proposal_id,
                      voter |-> sender,
                      vote |-> vote,
                      voting_power |-> power,
                      reward_earned |-> PARTICIPATION_REWARD]>>)
         /\ Count("vote")
         /\ UNCHANGED <<coinStore, now>>

\* Variant: a vote is recorded without counting it in votes_cast.
vote_on_proposal_uncounted(sender, addr, proposal_id, vote) ==
    LET e == vote_on_proposal_abort(sender, addr, proposal_id)
        power == voting_power(daoMember[sender])
    IN
    IF e # OK THEN Abort(e)
    ELSE /\ daoTreasury' = [daoTreasury EXCEPT
               ![addr].proposals[proposal_id].voters = @ @@ (sender :> power),
               ![addr].proposals[proposal_id].yes_votes =
                    IF vote THEN @ + power ELSE @,
               ![addr].proposals[proposal_id].no_votes =
                    IF vote THEN @ ELSE @ + power]
         /\ daoMember' = [daoMember EXCEPT
               ![sender].votes_cast = @,
               ![sender].governance_tokens.balance = @ + PARTICIPATION_REWARD,
               ![sender].governance_tokens.total_earned = @ + PARTICIPATION_REWARD,
               ![sender].reputation_score = @ + 1]
         /\ Commit("vote_on_proposal", sender, proposal_id,
                   <<[type |-> "VoteCastEvent",
                      proposal_id |-> proposal_id,
                      voter |-> sender,
                      vote |-> vote,
                      voting_power |-> power,
                      reward_earned |-> PARTICIPATION_REWARD]>>)
         /\ Count("vote")
         /\ UNCHANGED <<coinStore, now>>

vote_on_proposal(sender, addr, proposal_id, vote) ==
    LET e == vote_on_proposal_abort(sender, addr, proposal_id)
        power == voting_power(daoMember[sender])
    IN
    IF e # OK THEN Abort(e)
    ELSE /\ daoTreasury' = [daoTreasury EXCEPT
               ![addr].proposals[proposal_id].voters = @ @@ (sender :> power),
               ![addr].proposals[proposal_id].yes_votes =
                    IF vote THEN @ + power ELSE @,
               ![addr].proposals[proposal_id].no_votes =
                    IF vote THEN @ ELSE @ + power]
         /\ daoMember' = [daoMember EXCEPT
               ![sender].votes_cast = @ + 1,
               ![sender].governance_tokens.balance = @ + PARTICIPATION_REWARD,
               ![sender].governance_tokens.total_earned = @ + PARTICIPATION_REWARD,
               ![sender].reputation_score = @ + 1]
         /\ Commit("vote_on_proposal", sender, proposal_id,
                   <<[type |-> "VoteCastEvent",
                      proposal_id |-> proposal_id,
                      voter |-> sender,
                      vote |-> vote,
                      voting_power |-> power,
                      reward_earned |-> PARTICIPATION_REWARD]>>)
         /\ Count("vote")
         /\ UNCHANGED <<coinStore, now>>

\* ---------------------------------------------------------- execute_proposal
\* The branch execute_proposal takes once its three assertions have passed.
\* Variant: yes_votes >= no_votes passes.
execute_branch_tie_passes(treasury, proposal) ==
    IF proposal.yes_votes + proposal.no_votes < quorum_required(treasury)
    THEN "quorum_not_met"
    ELSE IF proposal.yes_votes >= proposal.no_votes
         THEN (IF proposal.category = CATEGORY_FUNDING
               THEN "funded_transfer" ELSE "funded")
         ELSE "rejected"

\* Variant: every passing proposal transfers, whatever its category.
execute_branch_any_category(treasury, proposal) ==
    IF proposal.yes_votes + proposal.no_votes < quorum_required(treasury)
    THEN "quorum_not_met"
    ELSE IF proposal.yes_votes > proposal.no_votes
         THEN "funded_transfer"
         ELSE "rejected"

execute_branch(treasury, proposal) ==
    IF proposal.yes_votes + proposal.no_votes < quorum_required(treasury)
    THEN "quorum_not_met"
    ELSE IF proposal.yes_votes > proposal.no_votes
         THEN (IF proposal.category = CATEGORY_FUNDING
               THEN "funded_transfer" ELSE "funded")
         ELSE "rejected"

\* amount_transferred of the ProposalExecutedEvent of a passing proposal.
\* Variant: the event reports requested_amount for every category.
amount_transferred_always(proposal) == proposal.requested_amount

amount_transferred(proposal) ==
    IF proposal.category = CATEGORY_FUNDING
    THEN proposal.requested_amount ELSE 0

\* Variant: no assertion on status and executed.
execute_proposal_abort_unguarded(addr, proposal_id) ==
    IF addr \notin DOMAIN daoTreasury THEN MISSING_DATA
    ELSE IF proposal_id \notin DOMAIN daoTreasury[addr].proposals
         THEN ETABLE_NOT_FOUND
    ELSE LET treasury == daoTreasury[addr]
             proposal == treasury.proposals[proposal_id]
         IN
         IF ~(now >= proposal.execution_time) THEN E_PROPOSAL_NOT_READY
         ELSE IF execute_branch(treasury, proposal) = "funded_transfer"
              THEN (IF coinStore[addr] < proposal.requested_amount
                    THEN ECOIN_INSUFFICIENT_BALANCE
                    ELSE IF proposal.recipient \notin DOMAIN coinStore
                    THEN ECOIN_STORE_NOT_PUBLISHED
                    ELSE IF treasury.total_funds < proposal.requested_amount
                    THEN ARITHMETIC_ERROR
                    ELSE OK)
         ELSE OK

\* Variant: the proposal is ready as soon as its voting period has ended.
execute_proposal_abort_no_delay(addr, proposal_id) ==
    IF addr \notin DOMAIN daoTreasury THEN MISSING_DATA
    ELSE IF proposal_id \notin DOMAIN daoTreasury[addr].proposals
         THEN ETABLE_NOT_FOUND
    ELSE LET treasury == daoTreasury[addr]
             proposal == treasury.proposals[proposal_id]
         IN
         IF ~(proposal.status = 0) THEN E_PROPOSAL_NOT_OPEN
         ELSE IF proposal.executed THEN E_PROPOSAL_ALREADY_EXECUTED
         ELSE IF ~(now >= proposal.voting_end_time) THEN E_PROPOSAL_NOT_READY
         ELSE IF execute_branch(treasury, proposal) = "funded_transfer"
              THEN (IF coinStore[addr] < proposal.requested_amount
                    THEN ECOIN_INSUFFICIENT_BALANCE
                    ELSE IF proposal.recipient \notin DOMAIN coinStore
                    THEN ECOIN_STORE_NOT_PUBLISHED
                    ELSE IF treasury.total_funds < proposal.requested_amount
                    THEN ARITHMETIC_ERROR
                    ELSE OK)
         ELSE OK

\* Variant: the subtraction from total_funds wraps instead of aborting.
execute_proposal_abort_unchecked_sub(addr, proposal_id) ==
    IF addr \notin DOMAIN daoTreasury THEN MISSING_DATA
    ELSE IF proposal_id \notin DOMAIN daoTreasury[addr].proposals
         THEN ETABLE_NOT_FOUND
    ELSE LET treasury == daoTreasury[addr]
             proposal == treasury.proposals[proposal_id]
         IN
         IF ~(proposal.status = 0) THEN E_PROPOSAL_NOT_OPEN
         ELSE IF proposal.executed THEN E_PROPOSAL_ALREADY_EXECUTED
         ELSE IF ~(now >= proposal.execution_time) THEN E_PROPOSAL_NOT_READY
         ELSE IF execute_branch(treasury, proposal) = "funded_transfer"
              THEN (IF coinStore[addr] < proposal.requested_amount
                    THEN ECOIN_INSUFFICIENT_BALANCE
                    ELSE IF proposal.recipient \notin DOMAIN coinStore
                    THEN ECOIN_STORE_NOT_PUBLISHED
                    ELSE OK)
         ELSE OK

execute_proposal_abort(addr, proposal_id) ==
    IF addr \notin DOMAIN daoTreasury THEN MISSING_DATA
    ELSE IF proposal_id \notin DOMAIN daoTreasury[addr].proposals
         THEN ETABLE_NOT_FOUND
    ELSE LET treasury == daoTreasury[addr]
             proposal == treasury.proposals[proposal_id]
         IN
         IF ~(proposal.status = 0) THEN E_PROPOSAL_NOT_OPEN
         ELSE IF proposal.executed THEN E_PROPOSAL_ALREADY_EXECUTED
         ELSE IF ~(now >= proposal.execution_time) THEN E_PROPOSAL_NOT_READY
         ELSE IF execute_branch(treasury, proposal) = "funded_transfer"
              THEN (IF coinStore[addr] < proposal.requested_amount
                    THEN ECOIN_INSUFFICIENT_BALANCE
                    ELSE IF proposal.recipient \notin DOMAIN coinStore
                    THEN ECOIN_STORE_NOT_PUBLISHED
                    ELSE IF treasury.total_funds < proposal.requested_amount
                    THEN ARITHMETIC_ERROR
                    ELSE OK)
         ELSE OK

\* Variant: the quorum branch returns before executed is set.
execute_proposal_early_return(sender, addr, proposal_id) ==
    LET e == execute_proposal_abort(addr, proposal_id)
        treasury == daoTreasury[addr]
        proposal == treasury.proposals[proposal_id]
        branch == execute_branch(treasury, proposal)
        withdrawn == [coinStore EXCEPT ![addr] = @ - proposal.requested_amount]
    IN
    IF e # OK THEN Abort(e)
    ELSE /\ CASE branch = "quorum_not_met" ->
                  /\ daoTreasury' = [daoTreasury EXCEPT
                        ![addr].proposals[proposal_id].status = 4]
                  /\ coinStore' = coinStore
                  /\ Commit("execute_proposal", sender, proposal_id,
                            <<[type |-> "ProposalExecutedEvent",
                               proposal_id |-> proposal_id,
                               result |-> 2,
                               amount_transferred |-> 0]>>)
              [] branch = "funded_transfer" ->
                  /\ coinStore' = [withdrawn EXCEPT
                        ![proposal.recipient] = @ + proposal.requested_amount]
                  /\ daoTreasury' = [daoTreasury EXCEPT
                        ![addr].total_funds = @ - proposal.requested_amount,
                        ![addr].proposals[proposal_id].status = 1,
                        ![addr].proposals[proposal_id].executed = TRUE]
                  /\ Commit("execute_proposal", sender, proposal_id,
                            <<[type |-> "ProposalExecutedEvent",
                               proposal_id |-> proposal_id,
                               result |-> 0,
                               amount_transferred |->
                                   amount_transferred(proposal)]>>)
              [] branch = "funded" ->
                  /\ daoTreasury' = [daoTreasury EXCEPT
                        ![addr].proposals[proposal_id].status = 1,
                        ![addr].proposals[proposal_id].executed = TRUE]
                  /\ coinStore' = coinStore
                  /\ Commit("execute_proposal", sender, proposal_id,
                            <<[type |-> "ProposalExecutedEvent",
                               proposal_id |-> proposal_id,
                               result |-> 0,
                               amount_transferred |->
                                   amount_transferred(proposal)]>>)
              [] branch = "rejected" ->
                  /\ daoTreasury' = [daoTreasury EXCEPT
                        ![addr].proposals[proposal_id].status = 2,
                        ![addr].proposals[proposal_id].executed = TRUE]
                  /\ coinStore' = coinStore
                  /\ Commit("execute_proposal", sender, proposal_id,
                            <<[type |-> "ProposalExecutedEvent",
                               proposal_id |-> proposal_id,
                               result |-> 1,
                               amount_transferred |-> 0]>>)
         /\ Count("execute")
         /\ UNCHANGED <<daoMember, now>>

\* Variant: the transfer of a Funding proposal is paid to the caller.
execute_proposal_caller_paid(sender, addr, proposal_id) ==
    LET e == execute_proposal_abort(addr, proposal_id)
        treasury == daoTreasury[addr]
        proposal == treasury.proposals[proposal_id]
        branch == execute_branch(treasury, proposal)
        withdrawn == [coinStore EXCEPT ![addr] = @ - proposal.requested_amount]
    IN
    IF e # OK THEN Abort(e)
    ELSE /\ CASE branch = "quorum_not_met" ->
                  /\ daoTreasury' = [daoTreasury EXCEPT
                        ![addr].proposals[proposal_id].status = 4,
                        ![addr].proposals[proposal_id].executed = TRUE]
                  /\ coinStore' = coinStore
                  /\ Commit("execute_proposal", sender, proposal_id,
                            <<[type |-> "ProposalExecutedEvent",
                               proposal_id |-> proposal_id,
                               result |-> 2,
                               amount_transferred |-> 0]>>)
              [] branch = "funded_transfer" ->
                  /\ coinStore' = [withdrawn EXCEPT
                        ![sender] = @ + proposal.requested_amount]
                  /\ daoTreasury' = [daoTreasury EXCEPT
                        ![addr].total_funds = @ - proposal.requested_amount,
                        ![addr].proposals[proposal_id].status = 1,
                        ![addr].proposals[proposal_id].executed = TRUE]
                  /\ Commit("execute_proposal", sender, proposal_id,
                            <<[type |-> "ProposalExecutedEvent",
                               proposal_id |-> proposal_id,
                               result |-> 0,
                               amount_transferred |->
                                   amount_transferred(proposal)]>>)
              [] branch = "funded" ->
                  /\ daoTreasury' = [daoTreasury EXCEPT
                        ![addr].proposals[proposal_id].status = 1,
                        ![addr].proposals[proposal_id].executed = TRUE]
                  /\ coinStore' = coinStore
                  /\ Commit("execute_proposal", sender, proposal_id,
                            <<[type |-> "ProposalExecutedEvent",
                               proposal_id |-> proposal_id,
                               result |-> 0,
                               amount_transferred |->
                                   amount_transferred(proposal)]>>)
              [] branch = "rejected" ->
                  /\ daoTreasury' = [daoTreasury EXCEPT
                        ![addr].proposals[proposal_id].status = 2,
                        ![addr].proposals[proposal_id].executed = TRUE]
                  /\ coinStore' = coinStore
                  /\ Commit("execute_proposal", sender, proposal_id,
                            <<[type |-> "ProposalExecutedEvent",
                               proposal_id |-> proposal_id,
                               result |-> 1,
                               amount_transferred |-> 0]>>)
         /\ Count("execute")
         /\ UNCHANGED <<daoMember, now>>

execute_proposal(sender, addr, proposal_id) ==
    LET e == execute_proposal_abort(addr, proposal_id)
        treasury == daoTreasury[addr]
        proposal == treasury.proposals[proposal_id]
        branch == execute_branch(treasury, proposal)
        withdrawn == [coinStore EXCEPT ![addr] = @ - proposal.requested_amount]
    IN
    IF e # OK THEN Abort(e)
    ELSE /\ CASE branch = "quorum_not_met" ->
                  /\ daoTreasury' = [daoTreasury EXCEPT
                        ![addr].proposals[proposal_id].status = 4,
                        ![addr].proposals[proposal_id].executed = TRUE]
                  /\ coinStore' = coinStore
                  /\ Commit("execute_proposal", sender, proposal_id,
                            <<[type |-> "ProposalExecutedEvent",
                               proposal_id |-> proposal_id,
                               result |-> 2,
                               amount_transferred |-> 0]>>)
              [] branch = "funded_transfer" ->
                  /\ coinStore' = [withdrawn EXCEPT
                        ![proposal.recipient] = @ + proposal.requested_amount]
                  /\ daoTreasury' = [daoTreasury EXCEPT
                        ![addr].total_funds = @ - proposal.requested_amount,
                        ![addr].proposals[proposal_id].status = 1,
                        ![addr].proposals[proposal_id].executed = TRUE]
                  /\ Commit("execute_proposal", sender, proposal_id,
                            <<[type |-> "ProposalExecutedEvent",
                               proposal_id |-> proposal_id,
                               result |-> 0,
                               amount_transferred |->
                                   amount_transferred(proposal)]>>)
              [] branch = "funded" ->
                  /\ daoTreasury' = [daoTreasury EXCEPT
                        ![addr].proposals[proposal_id].status = 1,
                        ![addr].proposals[proposal_id].executed = TRUE]
                  /\ coinStore' = coinStore
                  /\ Commit("execute_proposal", sender, proposal_id,
                            <<[type |-> "ProposalExecutedEvent",
                               proposal_id |-> proposal_id,
                               result |-> 0,
                               amount_transferred |->
                                   amount_transferred(proposal)]>>)
              [] branch = "rejected" ->
                  /\ daoTreasury' = [daoTreasury EXCEPT
                        ![addr].proposals[proposal_id].status = 2,
                        ![addr].proposals[proposal_id].executed = TRUE]
                  /\ coinStore' = coinStore
                  /\ Commit("execute_proposal", sender, proposal_id,
                            <<[type |-> "ProposalExecutedEvent",
                               proposal_id |-> proposal_id,
                               result |-> 1,
                               amount_transferred |-> 0]>>)
         /\ Count("execute")
         /\ UNCHANGED <<daoMember, now>>

\* --------------------------------------------------------- distribute_tokens
\* Variant: the caller of distribute_tokens is not compared with the admin.
distribute_tokens_abort_open(sender, addr, recipient) ==
    IF addr \notin DOMAIN daoTreasury THEN MISSING_DATA
    ELSE IF recipient \notin DOMAIN daoMember THEN MISSING_DATA
    ELSE OK

distribute_tokens_abort(sender, addr, recipient) ==
    IF addr \notin DOMAIN daoTreasury THEN MISSING_DATA
    ELSE IF ~(sender = daoTreasury[addr].admin) THEN E_NOT_AUTHORIZED
    ELSE IF recipient \notin DOMAIN daoMember THEN MISSING_DATA
    ELSE OK

distribute_tokens(sender, addr, recipient, amount, reason) ==
    LET e == distribute_tokens_abort(sender, addr, recipient) IN
    IF e # OK THEN Abort(e)
    ELSE /\ calls.distribute < MaxDistributes
         /\ daoMember' = [daoMember EXCEPT
               ![recipient].governance_tokens.balance = @ + amount,
               ![recipient].governance_tokens.total_earned = @ + amount]
         /\ Commit("distribute_tokens", sender, -1,
                   <<[type |-> "TokensDistributedEvent",
                      recipient |-> recipient,
                      amount |-> amount,
                      reason |-> reason]>>)
         /\ Count("distribute")
         /\ UNCHANGED <<daoTreasury, coinStore, now>>

\* ------------------------------------------ emergency_pause / emergency_unpause
\* Variant: the caller of the pause switches is not compared with the admin.
emergency_abort_open(sender, addr) ==
    IF addr \notin DOMAIN daoTreasury THEN MISSING_DATA ELSE OK

emergency_abort(sender, addr) ==
    IF addr \notin DOMAIN daoTreasury THEN MISSING_DATA
    ELSE IF ~(sender = daoTreasury[addr].admin) THEN E_NOT_AUTHORIZED
    ELSE OK

emergency_pause(sender, addr) ==
    LET e == emergency_abort(sender, addr) IN
    IF e # OK THEN Abort(e)
    ELSE /\ daoTreasury' = [daoTreasury EXCEPT ![addr].paused = TRUE]
         /\ Commit("emergency_pause", sender, -1,
                   <<[type |-> "EmergencyActionEvent",
                      admin |-> sender, action |-> "PAUSE", paused |-> TRUE]>>)
         /\ Free
         /\ UNCHANGED <<daoMember, coinStore, now>>

emergency_unpause(sender, addr) ==
    LET e == emergency_abort(sender, addr) IN
    IF e # OK THEN Abort(e)
    ELSE /\ daoTreasury' = [daoTreasury EXCEPT ![addr].paused = FALSE]
         /\ Commit("emergency_unpause", sender, -1,
                   <<[type |-> "EmergencyActionEvent",
                      admin |-> sender, action |-> "UNPAUSE", paused |-> FALSE]>>)
         /\ Free
         /\ UNCHANGED <<daoMember, coinStore, now>>

\* ------------------------------------------------------------------ the clock
\* timestamp::now_seconds() advances between transactions.
\* The module reads the clock only to stamp a new proposal and to compare
\* it with a stored voting_end_time or execution_time, so the clock is
\* advanced from one stored deadline to a later one.
Deadlines ==
    UNION {IF i \in DOMAIN daoTreasury[a].proposals
           THEN {daoTreasury[a].proposals[i].voting_end_time,
                 daoTreasury[a].proposals[i].execution_time}
           ELSE {} : a \in DOMAIN daoTreasury, i \in ProposalIds}

Tick ==
    /\ \E d \in Deadlines : d > now /\ now' = d
    /\ result' = NoResult
    /\ UNCHANGED <<daoTreasury, daoMember, coinStore, calls, wallet>>

\* ------------------------------------------------- the client's wallet provider
\* WalletProvider of the wallet context and the mutations of useDAO that go
\* through it, run by the event loop.  A task is one or more steps of the
\* environment (a page calls the provider, the wallet delivers an event or
\* settles a promise the provider awaits), each run to its next await, and
\* then the microtasks these steps queued, in the order they were queued,
\* until none is left (Drain).  A timer callback is a task of its own.
\* `wallet' holds
\*   connected, connecting, name, network   the React state as last set,
\*   rendered        the state the last render saw: what the functions and
\*                   listeners created by that render read,
\*   closures        wallet.connected of every render so far: a caller may
\*                   hold signAndSubmitTransaction of any of them,
\*   listeners       the network captured by each handleNetworkChange that
\*                   is registered with the wallet,
\*   removeAllListeners   whether the wallet object has that method,
\*   storage         the keys of localStorage that are read back,
\*   toasts          the notifications shown so far,
\*   pending         provider callbacks suspended at a promise of the
\*                   environment,
\*   micro           the queued continuations of the provider's awaits,
\*   glue            what the mutations of useDAO have queued: the call of
\*                   mutationFn that follows mutate(), and the onSuccess or
\*                   onError that follows the end of mutationFn; each lies
\*                   more microtasks ahead than any continuation in micro,
\*   txns            every call of signAndSubmitTransaction, with its
\*                   position.
defaultNetwork == "devnet"
PETRA == "Petra"

\* The message of what an awaited promise rejects with; NoMessage is an
\* error without one.
NoMessage == ""
ErrorMessages ==
    {NoMessage, "User rejected the request", "MAX_GAS_UNITS_BELOW_MIN",
     "INSUFFICIENT_BALANCE_FOR_TRANSACTION_FEE", "SEQUENCE_NUMBER_TOO_OLD",
     "SEQUENCE_NUMBER_TOO_OLD, INSUFFICIENT_BALANCE_FOR_TRANSACTION_FEE"}

\* message.includes(needle) over ErrorMessages.
includes(message, needle) ==
    needle \in
      CASE message = "MAX_GAS_UNITS_BELOW_MIN" -> {"MAX_GAS_UNITS_BELOW_MIN"}
        [] message = "INSUFFICIENT_BALANCE_FOR_TRANSACTION_FEE" ->
               {"INSUFFICIENT_BALANCE"}
        [] message = "SEQUENCE_NUMBER_TOO_OLD" -> {"SEQUENCE_NUMBER"}
        [] message =
             "SEQUENCE_NUMBER_TOO_OLD, INSUFFICIENT_BALANCE_FOR_TRANSACTION_FEE"
               -> {"SEQUENCE_NUMBER", "INSUFFICIENT_BALANCE"}
        [] OTHER -> {}

\* name.toLowerCase() over the network names a wallet reports.
toLowerCase(name) ==
    CASE name = "Testnet" -> "testnet"
      [] name = "Devnet" -> "devnet"
      [] OTHER -> name

\* The template literals of the provider's notifications.
wallet_not_found(walletName) ==
    CASE walletName = PETRA -> "Petra wallet not found. Please install it."
connected_to(walletName) ==
    CASE walletName = PETRA -> "Connected to Petra"
transaction_submitted(hash) ==
    CASE hash = "0x1a2b3c4d5e6f" -> "Transaction submitted: 0x1a2b3c..."
switched_to(target) ==
    CASE target = "devnet" -> "Switched to devnet"
      [] target = "testnet" -> "Switched to testnet"
network_switch_failed(message) ==
    CASE message = NoMessage -> "Network switch failed: Unknown error"
      [] message = "User rejected the request" ->
             "Network switch failed: User rejected the request"
network_changed_to(netName) ==
    CASE netName = "devnet" -> "Network changed to devnet"
      [] netName = "testnet" -> "Network changed to testnet"

\* What the onSuccess and onError of the mutations of useDAO show.
onSuccess(mutation) ==
    CASE mutation = "joinDAO" -> "Successfully joined the DAO!"
      [] mutation = "stakeTokens" -> "Tokens staked successfully!"
      [] mutation = "depositFunds" -> "Funds deposited successfully!"
      [] mutation = "createProposal" -> "Proposal created successfully!"
      [] mutation = "voteProposal" -> "Vote submitted successfully!"
      [] mutation = "executeProposal" -> "Proposal executed successfully!"
onError(mutation) ==
    CASE mutation = "joinDAO" -> "Failed to join DAO"
      [] mutation = "stakeTokens" -> "Failed to stake tokens"
      [] mutation = "depositFunds" -> "Failed to deposit funds"
      [] mutation = "createProposal" -> "Failed to create proposal"
      [] mutation = "voteProposal" -> "Failed to submit vote"
      [] mutation = "executeProposal" -> "Failed to execute proposal"

\* localStorage: walletName is written only by connectWallet, together with
\* walletConnected and walletAddress, and the three are removed together, so
\* walletName stands for the three where autoConnect reads them; "none" is a
\* missing key.
NoStorage == [walletName |-> "none", walletNetwork |-> "none"]

\* The provider after its first render and its effects: disconnected, on
\* the default network, the wallet's listeners registered, autoConnect
\* waiting for its 500 ms timer.
WalletMounted(storage, removeAllListeners) ==
    [connected |-> FALSE, connecting |-> FALSE, name |-> "none",
     network |-> defaultNetwork,
     rendered |-> [connected |-> FALSE, network |-> defaultNetwork],
     closures |-> {FALSE}, listeners |-> <<defaultNetwork>>,
     removeAllListeners |-> removeAllListeners,
     storage |-> storage, toasts |-> <<>>,
     pending |-> <<[op |-> "autoConnect", pc |-> "setTimeout",
                    arg |-> "none"]>>,
     micro |-> <<>>, glue |-> <<>>, txns |-> <<>>, ops |-> 0]

toast(w, kind, message) ==
    [w EXCEPT !.toasts = Append(@, [kind |-> kind, message |-> message])]

\* A provider callback awaits a promise of the environment.
Suspend(w, op, pc, arg) ==
    [w EXCEPT !.pending = Append(@, [op |-> op, pc |-> pc, arg |-> arg])]

\* A promise settles: the continuation of the code that awaits it is queued
\* as a microtask.  Settle is for the callback wallet.pending[i], SettleTxn
\* for the call wallet.txns[i] of signAndSubmitTransaction.
Settle(i, settled) ==
    [wallet EXCEPT
       !.pending = SubSeq(@, 1, i - 1) \o SubSeq(@, i + 1, Len(@)),
       !.micro = Append(@, [pc |-> wallet.pending[i].pc,
                            arg |-> wallet.pending[i].arg,
                            txn |-> 0, settled |-> settled])]
SettleTxn(i, settled) ==
    [wallet EXCEPT
       !.txns[i].pc = "microtask",
       !.micro = Append(@, [pc |-> wallet.txns[i].pc, arg |-> "none",
                            txn |-> i, settled |-> settled])]

WalletStep(w) ==
    /\ wallet' = w
    /\ UNCHANGED <<daoTreasury, daoMember, coinStore, now, calls, result>>

\* connectWallet up to `await walletObj.connect()'.
connectWallet_call(w, walletName, installed) ==
    LET connecting == [w EXCEPT !.connecting = TRUE]
    IN IF ~installed
       THEN [toast(connecting, "error", wallet_not_found(walletName))
                 EXCEPT !.connecting = FALSE]
       ELSE Suspend(connecting, "connectWallet", "connect", walletName)

\* connectWallet after walletObj.connect() settled: with an address it goes
\* on to `await walletObj.network()', without one it ends, and a rejection
\* is shown by the catch.
connectWallet_connect(w, walletName, response) ==
    CASE response = "address" ->
             Suspend(w, "connectWallet", "network", walletName)
      [] response = "no_address" -> w
      [] response \in {NoMessage, "User rejected the request"} ->
             [toast(w, "error",
                    IF response # NoMessage THEN response
                    ELSE "Failed to connect wallet")
                  EXCEPT !.connecting = FALSE]

\* connectWallet after walletObj.network() settled.
connectWallet_network(w, walletName, info) ==
    LET currentNetwork ==
            IF info \in {"throws", "none"} THEN defaultNetwork
            ELSE toLowerCase(info)
    IN toast([w EXCEPT
                !.connected = TRUE, !.connecting = FALSE,
                !.name = walletName, !.network = currentNetwork,
                !.storage = [walletName |-> walletName,
                             walletNetwork |-> currentNetwork]],
             "success", connected_to(walletName))

\* The end of disconnectWallet, after its try block.
disconnected(w) ==
    toast([w EXCEPT !.connected = FALSE, !.connecting = FALSE,
                    !.name = "none", !.storage = NoStorage],
          "success", "Wallet disconnected")

\* disconnectWallet up to `await walletObj.disconnect()', which it reaches
\* when localStorage names a wallet whose object has a disconnect method.
disconnectWallet_call(w, has_disconnect) ==
    IF w.storage.walletName # "none" /\ has_disconnect
    THEN Suspend(w, "disconnectWallet", "disconnect", "none")
    ELSE disconnected(w)

\* switchNetwork up to `await walletObj.changeNetwork(target)'.
switchNetwork_call(w, target, installed, has_changeNetwork) ==
    IF ~installed THEN toast(w, "error", "No wallet connected")
    ELSE IF ~has_changeNetwork
    THEN toast(w, "error", "Wallet does not support network switching")
    ELSE Suspend(w, "switchNetwork", "changeNetwork", target)

\* switchNetwork after walletObj.changeNetwork(target) settled.
switchNetwork_changeNetwork(w, target, settled) ==
    IF settled = "resolves"
    THEN toast([w EXCEPT !.network = target,
                         !.storage.walletNetwork = target],
               "success", switched_to(target))
    ELSE toast(w, "error", network_switch_failed(settled))

\* The end of autoConnect, which follows walletObj.isConnected() where the
\* wallet has it: the saved connection is restored without a notification,
\* or localStorage is cleared.
autoConnect_end(w, stillConnected, savedNetwork) ==
    IF stillConnected
    THEN [w EXCEPT !.connected = TRUE, !.connecting = FALSE,
                   !.name = PETRA,
                   !.network = IF savedNetwork # "none" THEN savedNetwork
                               ELSE @]
    ELSE [w EXCEPT !.storage = NoStorage]

\* autoConnect up to `await walletObj.isConnected()'.
autoConnect_call(w, installed, has_isConnected) ==
    LET savedNetwork == w.storage.walletNetwork
    IN IF w.storage.walletName = "none" \/ ~installed THEN w
       ELSE IF has_isConnected
       THEN Suspend(w, "autoConnect", "isConnected", savedNetwork)
       ELSE autoConnect_end(w, TRUE, savedNetwork)

\* One registered handleAccountChange; acc is the address the event
\* carries or "none".
handleAccountChange(w, acc, has_disconnect) ==
    IF acc # "none"
    THEN toast([w EXCEPT !.connected = TRUE], "blank", "Account changed")
    ELSE disconnectWallet_call(w, has_disconnect)

\* One registered handleNetworkChange, which compares with the network of
\* the render that registered it; net.name is the name of the object the
\* event carries, or "none" when it carries the string net.value.
handleNetworkChange(w, network, net) ==
    LET netName == IF net.name # "none" THEN toLowerCase(net.name)
                   ELSE net.value
    IN IF netName # "none" /\ netName # network
       THEN toast([w EXCEPT !.network = netName,
                            !.storage.walletNetwork = netName],
                  "blank", network_changed_to(netName))
       ELSE w

\* The wallet calls every listener that is registered for the event.
RECURSIVE AccountListeners(_, _, _, _)
AccountListeners(w, n, acc, has_disconnect) ==
    IF n = 0 THEN w
    ELSE handleAccountChange(
             AccountListeners(w, n - 1, acc, has_disconnect),
             acc, has_disconnect)
RECURSIVE NetworkListeners(_, _, _)
NetworkListeners(w, n, net) ==
    IF n = 0 THEN w
    ELSE handleNetworkChange(NetworkListeners(w, n - 1, net),
                             w.listeners[n], net)
RECURSIVE DisconnectListeners(_, _, _)
DisconnectListeners(w, n, has_disconnect) ==
    IF n = 0 THEN w
    ELSE disconnectWallet_call(
             DisconnectListeners(w, n - 1, has_disconnect), has_disconnect)

\* A call of signAndSubmitTransaction ends: it returns the response or
\* throws, and the mutation that made the call will run its onSuccess or
\* onError some microtasks later.  A rejection passes through the
\* fulfilment handler of the mutation first, so it reaches onError one
\* microtask later than a result reaches onSuccess.
returned(w, i) ==
    LET done == [w EXCEPT !.txns[i].pc = "returned"]
        mutation == w.txns[i].mutation
    IN IF mutation = "none" THEN done
       ELSE [done EXCEPT !.glue =
                Append(@, [kind |-> "success",
                           message |-> onSuccess(mutation)])]
thrown(w, i, message) ==
    LET done == [w EXCEPT !.txns[i].pc = "thrown",
                          !.txns[i].error = message]
        mutation == w.txns[i].mutation
    IN IF mutation = "none" THEN done
       ELSE [done EXCEPT !.micro =
                Append(@, [pc |-> "onError", arg |-> "none", txn |-> i,
                           settled |-> "rejects"])]

\* signAndSubmitTransaction up to the await of the wallet's
\* signAndSubmitTransaction; connected is wallet.connected of the render
\* that created the function.
signAndSubmitTransaction_call(w, connected, installed, mutation) ==
    LET i == Len(w.txns) + 1
        called ==
            [w EXCEPT !.txns =
                Append(@, [pc |-> "signAndSubmitTransaction",
                           attempts |-> 0, observed |-> "none",
                           error |-> "none", mutation |-> mutation,
                           hash |-> "none"])]
    IN IF ~installed \/ ~connected
       THEN thrown(called, i, "Wallet not connected")
       ELSE called

\* waitForTransaction returns: its promise resolves and the continuation
\* of `await waitForTransaction(response.hash)' is queued.
waitForTransaction_return(w, i, observed) ==
    [w EXCEPT
       !.txns[i].pc = "microtask",
       !.micro = Append(@, [pc |-> "waitForTransaction", arg |-> "none",
                            txn |-> i, settled |-> observed])]

\* signAndSubmitTransaction after waitForTransaction: the confirmation is
\* shown and the response is returned.
confirmed(w, i, observed) ==
    returned(toast([w EXCEPT !.txns[i].observed = observed],
                   "success", "Transaction confirmed!"), i)

\* The catch of signAndSubmitTransaction; error is the message of the
\* rejection, or "undefined" for a rejection that is no object.
signAndSubmitTransaction_catch(w, i, error) ==
    IF error = "undefined" THEN thrown(w, i, "TypeError")
    ELSE IF includes(error, "MAX_GAS_UNITS_BELOW_MIN")
    THEN thrown(toast(w, "error", "Gas limit too low. Please try again."),
                i, "Gas limit insufficient")
    ELSE IF includes(error, "INSUFFICIENT_BALANCE")
    THEN thrown(toast(w, "error", "Insufficient balance for transaction"),
                i, "Insufficient balance")
    ELSE IF includes(error, "SEQUENCE_NUMBER")
    THEN thrown(toast(w, "error",
                      "Transaction sequence error. Please try again."),
                i, "Sequence number error")
    ELSE thrown(toast(w, "error",
                      IF error # NoMessage THEN error
                      ELSE "Transaction failed"),
                i, error)

\* signAndSubmitTransaction after the wallet's signAndSubmitTransaction
\* settled: with a hash the submission is shown and waitForTransaction
\* runs up to its first fetch.
signAndSubmitTransaction_response(w, i, response) ==
    CASE response = "0x1a2b3c4d5e6f" ->
             [toast(w, "success", transaction_submitted(response))
                  EXCEPT !.txns[i].pc = "fetch",
                         !.txns[i].hash = response,
                         !.txns[i].attempts = 0]
      [] response = "no_hash" -> returned(w, i)
      [] OTHER -> signAndSubmitTransaction_catch(w, i, response)

\* waitForTransaction after the fetch of /v1/transactions/by_hash settled.
\* The catch inside the loop takes a rejection and breaks; the function
\* then returns normally.
waitForTransaction_fetch(w, i, fetched) ==
    CASE fetched = "rejects" -> waitForTransaction_return(w, i, "error")
      [] fetched = "not_ok" -> [w EXCEPT !.txns[i].pc = "setTimeout"]
      [] fetched = "ok" -> [w EXCEPT !.txns[i].pc = "json"]

\* waitForTransaction after response.json() settled.  The error thrown for
\* success = false is taken by the catch inside the loop like a rejection.
waitForTransaction_json(w, i, txn) ==
    CASE txn = "rejects" -> waitForTransaction_return(w, i, "error")
      [] txn = "pending" -> [w EXCEPT !.txns[i].pc = "setTimeout"]
      [] txn = "success" -> waitForTransaction_return(w, i, "success")
      [] txn = "failure" -> waitForTransaction_return(w, i, "failure")

\* waitForTransaction after the one second timer: attempts is incremented
\* and the loop fetches again or ends.
waitForTransaction_setTimeout(w, i) ==
    LET again == [w EXCEPT !.txns[i].attempts = @ + 1,
                           !.txns[i].pc = "fetch"]
    IN IF again.txns[i].attempts < maxAttempts THEN again
       ELSE waitForTransaction_return(again, i, "nothing")

\* The first queued microtask runs: the code after the await.
RunMicrotask(w) ==
    LET c == Head(w.micro)
        r == [w EXCEPT !.micro = Tail(@)]
    IN CASE c.pc = "connect" -> connectWallet_connect(r, c.arg, c.settled)
         [] c.pc = "network" -> connectWallet_network(r, c.arg, c.settled)
         [] c.pc = "disconnect" -> disconnected(r)
         [] c.pc = "changeNetwork" ->
                switchNetwork_changeNetwork(r, c.arg, c.settled)
         [] c.pc = "isConnected" ->
                \* a rejection counts as not connected
                autoConnect_end(r, c.settled = "true", c.arg)
         [] c.pc = "signAndSubmitTransaction" ->
                signAndSubmitTransaction_response(r, c.txn, c.settled)
         [] c.pc = "fetch" -> waitForTransaction_fetch(r, c.txn, c.settled)
         [] c.pc = "json" -> waitForTransaction_json(r, c.txn, c.settled)
         [] c.pc = "setTimeout" -> waitForTransaction_setTimeout(r, c.txn)
         [] c.pc = "waitForTransaction" -> confirmed(r, c.txn, c.settled)
         [] c.pc = "onError" ->
                \* the rejection of a mutation's call, one microtask on
                [r EXCEPT !.glue =
                    Append(@, [kind |-> "error",
                               message |->
                                   onError(r.txns[c.txn].mutation)])]

\* The end of a task: the queued continuations run in the order they were
\* queued, those they queue after them.  What the mutations queued runs
\* when no continuation is left, in the order it was queued: mutationFn
\* calls signAndSubmitTransaction of the render at the time of mutate(),
\* onSuccess and onError show their notification.
RECURSIVE Drain(_)
Drain(w) ==
    IF w.micro # <<>> THEN Drain(RunMicrotask(w))
    ELSE IF w.glue = <<>> THEN w
    ELSE LET g == Head(w.glue)
             r == [w EXCEPT !.glue = Tail(@)]
         IN IF g.kind = "mutationFn"
            THEN Drain(signAndSubmitTransaction_call(
                           r, g.connected, g.installed, g.mutation))
            ELSE Drain(toast(r, g.kind, g.message))

\* ---- the steps of the environment
\* A page calls the provider.
connectWallet(walletName, installed) ==
    /\ wallet.ops < MaxWalletCalls
    /\ WalletStep(connectWallet_call([wallet EXCEPT !.ops = @ + 1],
                                     walletName, installed))
disconnectWallet(has_disconnect) ==
    /\ wallet.ops < MaxWalletCalls
    /\ WalletStep(disconnectWallet_call([wallet EXCEPT !.ops = @ + 1],
                                        has_disconnect))
switchNetwork(target, installed, has_changeNetwork) ==
    /\ wallet.ops < MaxWalletCalls
    /\ WalletStep(switchNetwork_call([wallet EXCEPT !.ops = @ + 1],
                                     target, installed, has_changeNetwork))
\* A page calls signAndSubmitTransaction of some render, or the mutate of
\* a mutation, whose mutationFn calls signAndSubmitTransaction of the last
\* render some microtasks later.
signAndSubmitTransaction(connected, installed, mutation) ==
    /\ wallet.ops < MaxWalletCalls
    /\ connected \in (IF mutation = "none" THEN wallet.closures
                      ELSE {wallet.rendered.connected})
    /\ WalletStep(
         IF mutation = "none"
         THEN signAndSubmitTransaction_call([wallet EXCEPT !.ops = @ + 1],
                                            connected, installed, mutation)
         ELSE [wallet EXCEPT
                 !.ops = @ + 1,
                 !.glue = Append(@, [kind |-> "mutationFn",
                                     mutation |-> mutation,
                                     connected |-> connected,
                                     installed |-> installed])])

\* The wallet delivers an event to the listeners registered with it.
onAccountChange(acc, has_disconnect) ==
    /\ wallet.ops < MaxWalletCalls
    /\ WalletStep(AccountListeners([wallet EXCEPT !.ops = @ + 1],
                                   Len(wallet.listeners), acc,
                                   has_disconnect))
onNetworkChange(net) ==
    /\ wallet.ops < MaxWalletCalls
    /\ WalletStep(NetworkListeners([wallet EXCEPT !.ops = @ + 1],
                                   Len(wallet.listeners), net))
onDisconnect(has_disconnect) ==
    /\ wallet.ops < MaxWalletCalls
    /\ WalletStep(DisconnectListeners([wallet EXCEPT !.ops = @ + 1],
                                      Len(wallet.listeners),
                                      has_disconnect))

\* A promise the provider awaits settles.
walletObj_connect(i, response) ==
    /\ i \in DOMAIN wallet.pending
    /\ wallet.pending[i].op = "connectWallet"
    /\ wallet.pending[i].pc = "connect"
    /\ WalletStep(Settle(i, response))
walletObj_network(i, info) ==
    /\ i \in DOMAIN wallet.pending
    /\ wallet.pending[i].op = "connectWallet"
    /\ wallet.pending[i].pc = "network"
    /\ WalletStep(Settle(i, info))
walletObj_disconnect(i, settled) ==
    /\ i \in DOMAIN wallet.pending
    /\ wallet.pending[i].op = "disconnectWallet"
    /\ wallet.pending[i].pc = "disconnect"
    /\ WalletStep(Settle(i, settled))
walletObj_changeNetwork(i, settled) ==
    /\ i \in DOMAIN wallet.pending
    /\ wallet.pending[i].op = "switchNetwork"
    /\ wallet.pending[i].pc = "changeNetwork"
    /\ WalletStep(Settle(i, settled))
walletObj_isConnected(i, settled) ==
    /\ i \in DOMAIN wallet.pending
    /\ wallet.pending[i].op = "autoConnect"
    /\ wallet.pending[i].pc = "isConnected"
    /\ WalletStep(Settle(i, settled))
walletObj_signAndSubmitTransaction(i, response) ==
    /\ i \in DOMAIN wallet.txns
    /\ wallet.txns[i].pc = "signAndSubmitTransaction"
    /\ WalletStep(SettleTxn(i, response))
\* The node answers that it does not have the transaction yet to at most
\* MaxRetried calls.
fetch(i, fetched) ==
    /\ i \in DOMAIN wallet.txns
    /\ wallet.txns[i].pc = "fetch"
    /\ wallet.txns[i].attempts < maxAttempts
    /\ fetched = "not_ok" =>
          Cardinality({j \in DOMAIN wallet.txns \ {i} :
                          \/ wallet.txns[j].pc = "setTimeout"
                          \/ wallet.txns[j].attempts > 0}) < MaxRetried
    /\ WalletStep(SettleTxn(i, fetched))
response_json(i, txn) ==
    /\ i \in DOMAIN wallet.txns
    /\ wallet.txns[i].pc = "json"
    /\ txn = "pending" =>
          Cardinality({j \in DOMAIN wallet.txns \ {i} :
                          \/ wallet.txns[j].pc = "setTimeout"
                          \/ wallet.txns[j].attempts > 0}) < MaxRetried
    /\ WalletStep(SettleTxn(i, txn))

\* A timer fires, in a task of its own: the 500 ms timer of the mount
\* effect runs autoConnect, the one second timer of waitForTransaction
\* resumes it.
autoConnect(i, installed, has_isConnected) ==
    /\ i \in DOMAIN wallet.pending
    /\ wallet.pending[i].op = "autoConnect"
    /\ wallet.pending[i].pc = "setTimeout"
    /\ wallet.micro = <<>>
    /\ wallet.glue = <<>>
    /\ WalletStep(
         Drain(autoConnect_call(
                 [wallet EXCEPT !.pending = SubSeq(@, 1, i - 1) \o
                                            SubSeq(@, i + 1, Len(@))],
                 installed, has_isConnected)))
setTimeout(i) ==
    /\ i \in DOMAIN wallet.txns
    /\ wallet.txns[i].pc = "setTimeout"
    /\ wallet.micro = <<>>
    /\ wallet.glue = <<>>
    /\ WalletStep(Drain(SettleTxn(i, "resolves")))

\* The task ends.
EndOfTask ==
    /\ wallet.micro # <<>> \/ wallet.glue # <<>>
    /\ WalletStep(Drain(wallet))

\* React renders the provider with the state as last set: the functions
\* and listeners of this render read it, and the effect that depends on
\* network runs again, after the cleanup of the previous run.
render ==
    /\ wallet.micro = <<>>
    /\ wallet.glue = <<>>
    /\ wallet.rendered #
          [connected |-> wallet.connected, network |-> wallet.network]
    /\ WalletStep(
         [wallet EXCEPT
            !.rendered = [connected |-> wallet.connected,
                          network |-> wallet.network],
            !.closures = @ \cup {wallet.connected},
            !.listeners =
                IF wallet.network = wallet.rendered.network THEN @
                ELSE Append(IF wallet.removeAllListeners THEN <<>> ELSE @,
                            wallet.network)])

\* -------------------------------------------------------------- specification
\* Before initialize_dao: no treasury, no member, every user holds coins.
GenesisChain(max_txns, max_proposals) ==
    /\ daoTreasury = [a \in {} |-> 0]
    /\ daoMember = [a \in {} |-> 0]
    /\ coinStore = [u \in Users |-> InitCoin]
    /\ now = 0
    /\ calls = [deposit |-> 0, stake |-> 0, transfer |-> 0, distribute |-> 0,
                total |-> 0, max_txns |-> max_txns,
                max_proposals |-> max_proposals]
    /\ result = NoResult

Genesis(max_txns, max_proposals) ==
    /\ GenesisChain(max_txns, max_proposals)
    /\ wallet = WalletMounted(NoStorage, TRUE)

Init == Genesis(MaxTxns, MaxProposals)

Initialize == \E s \in Founders : initialize_dao(s, DaoSeed)
Join == \E s \in Users : join_dao(s)
Deposit == \E s \in Depositors, amt \in DepositAmounts :
               deposit_funds(s, TreasuryAddr, amt)
Stake == \E s \in Stakers, amt \in StakeAmounts :
             stake_tokens(s, TreasuryAddr, amt)
Transfer == \E s \in TransferSenders, r \in TransferRecipients,
               amt \in TransferAmounts :
                transfer_tokens(s, r, amt)
Create == \E s \in Proposers, c \in Categories, r \in Recipients,
             amt \in RequestAmounts :
              create_investment_proposal(s, TreasuryAddr, "title", "description",
                                         c, r, amt)
Vote == \E s \in Users, pid \in ProposalIds, v \in BOOLEAN :
            vote_on_proposal(s, TreasuryAddr, pid, v)
Execute == \E s \in Executors, pid \in ProposalIds :
               execute_proposal(s, TreasuryAddr, pid)
Distribute == \E s \in Admins, r \in DistributeRecipients,
                 amt \in DistributeAmounts :
                  distribute_tokens(s, TreasuryAddr, r, amt, "reason")
Pause == \E s \in Admins : emergency_pause(s, TreasuryAddr)
Unpause == \E s \in Admins : emergency_unpause(s, TreasuryAddr)

Next ==
    \/ Initialize
    \/ Join
    \/ Deposit
    \/ Stake
    \/ Transfer
    \/ Create
    \/ Vote
    \/ Execute
    \/ Distribute
    \/ Pause
    \/ Unpause
    \/ Tick

Spec == Init /\ [][Next]_vars

\* Two Funding proposals that compete for the same deposit: the founder
\* proposes and votes, one member deposits.
ShortfallInit == Genesis(ShortfallTxns, ShortfallProposals)

ShortfallDeposit == deposit_funds("a2", TreasuryAddr, MIN_PROPOSAL_AMOUNT)
ShortfallCreate ==
    \E r \in Recipients :
        create_investment_proposal("a1", TreasuryAddr, "title", "description",
                                   CATEGORY_FUNDING, r, MIN_PROPOSAL_AMOUNT)
ShortfallVote ==
    \E pid \in ProposalIds, v \in BOOLEAN :
        vote_on_proposal("a1", TreasuryAddr, pid, v)

ShortfallNext ==
    \/ Initialize
    \/ ShortfallDeposit
    \/ ShortfallCreate
    \/ ShortfallVote
    \/ Execute
    \/ Pause
    \/ Unpause
    \/ Tick

SpecShortfall == ShortfallInit /\ [][ShortfallNext]_vars

\* The transactions of a DAO of two: the founder "a1" proposes, the member
\* "a2" joins and is the recipient, both vote.
FounderCreate ==
    \E c \in Categories, amt \in RequestAmounts :
        create_investment_proposal("a1", TreasuryAddr, "title", "description",
                                   c, "a2", amt)
MemberCreate ==
    \E s \in Proposers, c \in Categories, amt \in RequestAmounts :
        create_investment_proposal(s, TreasuryAddr, "title", "description",
                                   c, "a2", amt)
MemberJoin == join_dao("a2")
PairVote ==
    \E s \in {"a1", "a2"}, pid \in ProposalIds, v \in BOOLEAN :
        vote_on_proposal(s, TreasuryAddr, pid, v)

\* Proposals of every category created at different clock times: creation,
\* voting and execution without the token operations.
TimelineInit == Genesis(TimelineTxns, TimelineProposals)

TimelineNext ==
    \/ Initialize
    \/ MemberJoin
    \/ Deposit
    \/ FounderCreate
    \/ PairVote
    \/ Execute
    \/ Tick

SpecTimeline == TimelineInit /\ [][TimelineNext]_vars

\* One proposal of the founder from creation to execution, with the
\* deposit, the stake and the votes that decide its outcome.
ProposalNext ==
    \/ Initialize
    \/ MemberJoin
    \/ Deposit
    \/ Stake
    \/ FounderCreate
    \/ PairVote
    \/ Execute
    \/ Tick

SpecProposal == Init /\ [][ProposalNext]_vars

\* The same with tokens handed out by the admin, so that the member reaches
\* the proposal threshold and stakes what was earned.
EarnedNext ==
    \/ Initialize
    \/ MemberJoin
    \/ Deposit
    \/ Stake
    \/ Distribute
    \/ MemberCreate
    \/ PairVote
    \/ Execute
    \/ Tick

SpecEarned == Init /\ [][EarnedNext]_vars

\* Three members voting on one Governance proposal.
VotingCreate ==
    \E amt \in RequestAmounts :
        create_investment_proposal("a1", TreasuryAddr, "title", "description",
                                   CATEGORY_GOVERNANCE, "a2", amt)

VotingNext ==
    \/ Initialize
    \/ Join
    \/ VotingCreate
    \/ Vote
    \/ Execute
    \/ Tick

SpecVoting == Init /\ [][VotingNext]_vars

\* Two proposals of the founder and the votes of the pair on them, with the
\* stakes, transfers and distributions that change a voter's power between
\* one vote and the next.
PowerNext ==
    \/ Initialize
    \/ MemberJoin
    \/ Stake
    \/ Transfer
    \/ Distribute
    \/ VotingCreate
    \/ PairVote
    \/ Tick

SpecPower == Genesis(PowerTxns, PowerProposals) /\ [][PowerNext]_vars

\* The pause switch against the calls it guards and the distribution it
\* does not guard.
PauseInit == Genesis(PauseTxns, MaxProposals)

PauseNext ==
    \/ Initialize
    \/ MemberJoin
    \/ Deposit
    \/ Stake
    \/ FounderCreate
    \/ PairVote
    \/ Distribute
    \/ Pause
    \/ Unpause

SpecPause == PauseInit /\ [][PauseNext]_vars

\* ------------------------------------------------------------------ properties
\* Vocabulary.  A step that changes the state is a committed transaction (or
\* a clock step, op "none"), and result' is its output.
\* Staking by every member, with the token operations that move balances.
StakingInit == Genesis(StakingTxns, 0)

StakingStake == \E s \in Users, amt \in StakeAmounts :
                    stake_tokens(s, TreasuryAddr, amt)

StakingNext ==
    \/ Initialize
    \/ Join
    \/ StakingStake
    \/ Transfer
    \/ Distribute

SpecStaking == StakingInit /\ [][StakingNext]_vars

\* Two founders: each initialize_dao creates the treasury of its sender and
\* seed, and the members stake against any of them.
FoundersInit == Genesis(FoundersTxns, 0)

FoundersInitialize ==
    \E s \in {"a1", "a3"}, seed \in Seeds : initialize_dao(s, seed)
FoundersStake ==
    \E s \in Users, f \in {"a1", "a3"}, seed \in Seeds,
       amt \in StakeAmounts :
        stake_tokens(s, create_resource_address(f, seed), amt)

FoundersNext ==
    \/ FoundersInitialize
    \/ Join
    \/ FoundersStake

SpecFounders == FoundersInit /\ [][FoundersNext]_vars

\* ------------------------------------------------------------- view functions
\* Variant: an id that is not in the table yields a zero-filled record.
get_proposal_info_default(dao_treasury_address, proposal_id) ==
    IF dao_treasury_address \notin DOMAIN daoTreasury
    THEN [abort |-> MISSING_DATA]
    ELSE IF proposal_id \notin DOMAIN daoTreasury[dao_treasury_address].proposals
    THEN [abort |-> OK,
          value |-> <<"", 0, 0, 0, 0, 0, 0, FALSE, "">>]
    ELSE LET proposal ==
                 daoTreasury[dao_treasury_address].proposals[proposal_id]
         IN [abort |-> OK,
             value |-> <<proposal.title, proposal.category,
                         proposal.requested_amount, proposal.yes_votes,
                         proposal.no_votes, proposal.status,
                         proposal.voting_end_time, proposal.executed,
                         proposal.proposer>>]

\* The view get_proposal_info: the nine returned values, or the abort code
\* of the borrow that failed.
get_proposal_info(dao_treasury_address, proposal_id) ==
    IF dao_treasury_address \notin DOMAIN daoTreasury
    THEN [abort |-> MISSING_DATA]
    ELSE IF proposal_id \notin DOMAIN daoTreasury[dao_treasury_address].proposals
    THEN [abort |-> ETABLE_NOT_FOUND]
    ELSE LET proposal ==
                 daoTreasury[dao_treasury_address].proposals[proposal_id]
         IN [abort |-> OK,
             value |-> <<proposal.title, proposal.category,
                         proposal.requested_amount, proposal.yes_votes,
                         proposal.no_votes, proposal.status,
                         proposal.voting_end_time, proposal.executed,
                         proposal.proposer>>]

\* The client's fetchProposal: the view's values as a Proposal object, or the
\* rejection of aptos.view.
fetchProposal(proposalId) ==
    LET view_result == get_proposal_info(TreasuryAddr, proposalId) IN
    IF view_result.abort # OK THEN [thrown |-> view_result.abort]
    ELSE LET response == view_result.value IN
         [id |-> proposalId,
          title |-> response[1],
          category |-> response[2],
          recipient |-> "",
          requestedAmount |-> response[3],
          yesVotes |-> response[4],
          noVotes |-> response[5],
          status |-> response[6],
          votingEndTime |-> response[7],
          executed |-> response[8],
          proposer |-> response[9]]

\* Proposals taken to their end: the clock keeps advancing and every
\* proposal keeps being submitted for execution.  Transactions other than
\* executions are limited to LiveOps, so that an execution is never held
\* back by the transaction limit.
LiveInit == Genesis(LiveOps + LiveProposals, LiveProposals)

ExecutedCount ==
    IF TreasuryAddr \in DOMAIN daoTreasury
    THEN Cardinality({i \in DOMAIN daoTreasury[TreasuryAddr].proposals :
                         daoTreasury[TreasuryAddr].proposals[i].executed})
    ELSE 0

LiveBudget == calls.total - ExecutedCount < LiveOps

LiveDeposit == LiveBudget /\ ShortfallDeposit
LiveCreate ==
    /\ LiveBudget
    /\ \E c \in {CATEGORY_FUNDING, CATEGORY_GOVERNANCE}, r \in {"a2", "a4"} :
          create_investment_proposal("a1", TreasuryAddr, "title", "description",
                                     c, r, MIN_PROPOSAL_AMOUNT)
LiveVote == LiveBudget /\ ShortfallVote
LiveExecute(pid) == \E s \in Executors : execute_proposal(s, TreasuryAddr, pid)

LiveNext ==
    \/ Initialize
    \/ LiveDeposit
    \/ LiveCreate
    \/ LiveVote
    \/ \E pid \in ProposalIds : LiveExecute(pid)
    \/ Pause
    \/ Unpause
    \/ Tick

SpecLive ==
    /\ LiveInit
    /\ [][LiveNext]_vars
    /\ WF_vars(Tick)
    /\ \A pid \in ProposalIds : WF_vars(LiveExecute(pid))

\* The wallet provider from its mount on: the storage a previous session
\* left, the wallet's events and the calls the pages make.
WalletInit ==
    /\ GenesisChain(0, 0)
    /\ wallet \in {WalletMounted(storage, removeAllListeners) :
                     storage \in
                       {NoStorage,
                        [walletName |-> PETRA, walletNetwork |-> "testnet"]},
                     removeAllListeners \in BOOLEAN}

WalletNext ==
    \/ \E i \in DOMAIN wallet.pending, installed \in BOOLEAN,
          has_isConnected \in BOOLEAN :
           autoConnect(i, installed, has_isConnected)
    \/ \E i \in DOMAIN wallet.pending,
          settled \in {"true", "false", "rejects"} :
           walletObj_isConnected(i, settled)
    \/ \E walletName \in {PETRA}, installed \in BOOLEAN :
           connectWallet(walletName, installed)
    \/ \E i \in DOMAIN wallet.pending,
          response \in {"address", "no_address"} \cup {NoMessage, "User rejected the request"} :
           walletObj_connect(i, response)
    \/ \E i \in DOMAIN wallet.pending, info \in {"throws", "none", "Testnet"} :
           walletObj_network(i, info)
    \/ \E has_disconnect \in BOOLEAN :
           disconnectWallet(has_disconnect)
    \/ \E i \in DOMAIN wallet.pending, settled \in {"resolves", "rejects"} :
           walletObj_disconnect(i, settled)
    \/ \E target \in {"devnet", "testnet"}, installed \in BOOLEAN,
          has_changeNetwork \in BOOLEAN :
           switchNetwork(target, installed, has_changeNetwork)
    \/ \E i \in DOMAIN wallet.pending,
          settled \in {"resolves"} \cup {NoMessage, "User rejected the request"} :
           walletObj_changeNetwork(i, settled)
    \/ \E acc \in {"none", "0xa11ce"}, has_disconnect \in BOOLEAN :
           onAccountChange(acc, has_disconnect)
    \/ \E net \in {[name |-> "Testnet", value |-> "none"],
                   [name |-> "none", value |-> "devnet"],
                   [name |-> "none", value |-> "none"]} :
           onNetworkChange(net)
    \/ \E has_disconnect \in BOOLEAN :
           onDisconnect(has_disconnect)
    \/ \E connected \in BOOLEAN, installed \in BOOLEAN,
          mutation \in {"none", "joinDAO"} :
           signAndSubmitTransaction(connected, installed, mutation)
    \/ \E i \in DOMAIN wallet.txns,
          response \in {"0x1a2b3c4d5e6f", "no_hash", "undefined"} \cup
                     ErrorMessages :
           walletObj_signAndSubmitTransaction(i, response)
    \/ \E i \in DOMAIN wallet.txns, fetched \in {"rejects", "not_ok", "ok"} :
           fetch(i, fetched)
    \/ \E i \in DOMAIN wallet.txns,
          txn \in {"rejects", "pending", "success", "failure"} :
           response_json(i, txn)
    \/ \E i \in DOMAIN wallet.txns :
           setTimeout(i)
    \/ EndOfTask
    \/ render

SpecWallet == WalletInit /\ [][WalletNext]_vars

HasTreasury == TreasuryAddr \in DOMAIN daoTreasury
Treasury == daoTreasury[TreasuryAddr]
Exists(pid) == HasTreasury /\ pid \in DOMAIN Treasury.proposals
Proposal(pid) == Treasury.proposals[pid]
TotalVotes(pid) == Proposal(pid).yes_votes + Proposal(pid).no_votes
Quorum == (Treasury.staked_tokens * 20) \div 100
Eligible(pid) ==
    /\ Exists(pid)
    /\ Proposal(pid).status = STATUS_OPEN
    /\ ~Proposal(pid).executed
    /\ now >= Proposal(pid).execution_time
Executes(pid) ==
    result'.op = "execute_proposal" /\ result'.proposal_id = pid
Votes(s, pid) ==
    /\ result'.op = "vote_on_proposal"
    /\ result'.sender = s
    /\ result'.proposal_id = pid
ExecutedEvent(pid, res, amount) ==
    <<[type |-> "ProposalExecutedEvent", proposal_id |-> pid,
       result |-> res, amount_transferred |-> amount]>>

(* C1: an execute call on a proposal whose executed flag is already true   *)
(* aborts, so no committed transaction ever executes such a proposal: the  *)
(* status, total_funds, the coin balances and the member records stay as   *)
(* they are and no event is emitted.                                       *)
C1_ExecuteOnExecutedFails ==
    [][\A pid \in ProposalIds :
          (Exists(pid) /\ Proposal(pid).executed)
              => /\ execute_proposal_abort(TreasuryAddr, pid) # OK
                 /\ ~Executes(pid)]_vars

C1_Witness ==
    \E pid \in ProposalIds :
        /\ Exists(pid)
        /\ Proposal(pid).executed
        /\ now >= Proposal(pid).execution_time
        /\ execute_proposal_abort(TreasuryAddr, pid) = E_PROPOSAL_NOT_OPEN

(* C2: while the treasury is paused the only transactions that commit are  *)
(* emergency_pause and emergency_unpause (and join_dao, which takes no     *)
(* treasury): deposit, stake, transfer, create, vote, execute and          *)
(* distribute all fail, and the custody of funds does not shrink.          *)
C2_PausedBlocksMutations ==
    [][(HasTreasury /\ Treasury.paused)
          => /\ result'.op \in {"emergency_pause", "emergency_unpause",
                                "join_dao", "none"}
             /\ Treasury'.total_funds >= Treasury.total_funds
             /\ coinStore'[TreasuryAddr] >= coinStore[TreasuryAddr]]_vars

(* C3: total_funds or the treasury's coin balance decreases only in a      *)
(* committed execute_proposal of a Funding proposal that met the quorum    *)
(* with yes > no; total_funds increases only in a committed deposit_funds. *)
C3_OnlyFundingExecutionDebits ==
    [][HasTreasury
          => /\ (\/ Treasury'.total_funds < Treasury.total_funds
                 \/ coinStore'[TreasuryAddr] < coinStore[TreasuryAddr])
                   => \E pid \in ProposalIds :
                         /\ Eligible(pid)
                         /\ Executes(pid)
                         /\ Proposal(pid).category = CATEGORY_FUNDING
                         /\ TotalVotes(pid) >= Quorum
                         /\ Proposal(pid).yes_votes > Proposal(pid).no_votes
                         /\ Treasury'.proposals[pid].status = STATUS_FUNDED
             /\ (\/ Treasury'.total_funds > Treasury.total_funds
                 \/ coinStore'[TreasuryAddr] > coinStore[TreasuryAddr])
                   => result'.op = "deposit_funds"]_vars

C3_Witness ==
    /\ result.op = "execute_proposal"
    /\ result.events[1].amount_transferred > 0
    /\ Treasury.total_funds = 0

(* C4: an eligible Funding proposal with quorum met and yes > no whose     *)
(* requested_amount exceeds total_funds cannot be executed: the call       *)
(* fails with an insufficient-funds fault, E_INSUFFICIENT_FUNDS of the     *)
(* module or the insufficient balance of the coin withdrawal, nothing is   *)
(* transferred and the proposal stays Open and unexecuted.                 *)
Shortfall(pid) ==
    /\ Eligible(pid)
    /\ Proposal(pid).category = CATEGORY_FUNDING
    /\ TotalVotes(pid) >= Quorum
    /\ Proposal(pid).yes_votes > Proposal(pid).no_votes
    /\ Proposal(pid).requested_amount > Treasury.total_funds

C4_ShortfallFailsWholeCall ==
    [][\A pid \in ProposalIds :
          Shortfall(pid)
              => /\ execute_proposal_abort(TreasuryAddr, pid)
                        \in {E_INSUFFICIENT_FUNDS, ECOIN_INSUFFICIENT_BALANCE}
                 /\ ~Executes(pid)
                 /\ Treasury'.total_funds = Treasury.total_funds
                 /\ Treasury'.proposals[pid].status = STATUS_OPEN
                 /\ ~Treasury'.proposals[pid].executed]_vars

(* C5: a member recorded in a proposal's voter set cannot vote on it       *)
(* again: the call aborts (with E_ALREADY_VOTED whenever the DAO is not    *)
(* paused and the proposal is open and in its voting period), no vote of   *)
(* that member on that proposal commits and the recorded vote stays.       *)
C5_VoteAtMostOnce ==
    [][\A pid \in ProposalIds : \A s \in Users :
          (Exists(pid) /\ s \in DOMAIN Proposal(pid).voters)
              => /\ vote_on_proposal_abort(s, TreasuryAddr, pid) # OK
                 /\ (/\ ~Treasury.paused
                     /\ Proposal(pid).status = STATUS_OPEN
                     /\ now <= Proposal(pid).voting_end_time)
                       => vote_on_proposal_abort(s, TreasuryAddr, pid)
                              = E_ALREADY_VOTED
                 /\ ~Votes(s, pid)
                 /\ s \in DOMAIN Treasury'.proposals[pid].voters
                 /\ Treasury'.proposals[pid].voters[s]
                        = Proposal(pid).voters[s]]_vars

C5_Witness ==
    \E pid \in ProposalIds : \E s \in Users :
        /\ Exists(pid)
        /\ s \in DOMAIN Proposal(pid).voters
        /\ vote_on_proposal_abort(s, TreasuryAddr, pid) = E_ALREADY_VOTED

(* C6: a committed execute of a proposal with quorum met and yes > no      *)
(* marks it Funded and executed and emits one ProposalExecutedEvent with   *)
(* result 0; for a Funding proposal exactly requested_amount moves from    *)
(* the treasury to the recipient, total_funds drops by requested_amount    *)
(* and the event carries requested_amount; for the other categories no     *)
(* coin moves, total_funds stays and the event amount is 0.                *)
C6_PassingExecution ==
    [][\A pid \in ProposalIds :
          (/\ Exists(pid)
           /\ Executes(pid)
           /\ TotalVotes(pid) >= Quorum
           /\ Proposal(pid).yes_votes > Proposal(pid).no_votes)
              => LET p == Proposal(pid)
                     amt == p.requested_amount
                     debited == [coinStore EXCEPT ![TreasuryAddr] = @ - amt]
                 IN
                 /\ Treasury'.proposals[pid].status = STATUS_FUNDED
                 /\ Treasury'.proposals[pid].executed
                 /\ IF p.category = CATEGORY_FUNDING
                    THEN /\ Treasury'.total_funds = Treasury.total_funds - amt
                         /\ coinStore' =
                              [debited EXCEPT ![p.recipient] = @ + amt]
                         /\ result'.events =
                              ExecutedEvent(pid, RESULT_FUNDED, amt)
                    ELSE /\ Treasury'.total_funds = Treasury.total_funds
                         /\ coinStore' = coinStore
                         /\ result'.events =
                              ExecutedEvent(pid, RESULT_FUNDED, 0)]_vars

C6_Witness ==
    \E pid \in ProposalIds :
        /\ Exists(pid)
        /\ result = Outcome("execute_proposal", result.sender, pid,
                            ExecutedEvent(pid, RESULT_FUNDED,
                                          Proposal(pid).requested_amount))
        /\ Proposal(pid).category = CATEGORY_FUNDING
        /\ Proposal(pid).recipient # TreasuryAddr
        /\ coinStore[TreasuryAddr] = 0

(* C7: an eligible proposal whose yes_votes + no_votes is below            *)
(* floor(staked_tokens * 20 / 100) can be executed whatever its category   *)
(* and vote split, and the execution marks it QuorumNotMet and executed,   *)
(* leaves total_funds and every coin balance as they are and emits result  *)
(* 2 with amount 0; with yes_votes + no_votes equal to (or above) the      *)
(* quorum the execution never resolves to QuorumNotMet.                    *)
C7_QuorumNotMet ==
    [][\A pid \in ProposalIds :
          /\ (Eligible(pid) /\ TotalVotes(pid) < Quorum)
                => execute_proposal_abort(TreasuryAddr, pid) = OK
          /\ (Exists(pid) /\ Executes(pid) /\ TotalVotes(pid) < Quorum)
                => /\ Treasury'.proposals[pid].status = STATUS_QUORUM_NOT_MET
                   /\ Treasury'.proposals[pid].executed
                   /\ Treasury'.total_funds = Treasury.total_funds
                   /\ coinStore' = coinStore
                   /\ result'.events =
                        ExecutedEvent(pid, RESULT_QUORUM_NOT_MET, 0)
          /\ (Exists(pid) /\ Executes(pid) /\ TotalVotes(pid) >= Quorum)
                => Treasury'.proposals[pid].status
                       # STATUS_QUORUM_NOT_MET]_vars

C7_Witness ==
    \E pid \in ProposalIds :
        /\ Exists(pid)
        /\ result.op = "execute_proposal"
        /\ result.proposal_id = pid
        /\ Proposal(pid).status = STATUS_QUORUM_NOT_MET
        /\ Proposal(pid).yes_votes > Proposal(pid).no_votes
        /\ TotalVotes(pid) < Quorum

(* C8: an eligible proposal with quorum met and yes_votes <= no_votes can  *)
(* be executed, and the execution marks it Rejected and executed, moves no *)
(* funds and emits result 1 with amount 0; an execution resolves to Funded *)
(* only with yes_votes strictly greater than no_votes.                     *)
C8_TieIsRejected ==
    [][\A pid \in ProposalIds :
          /\ (/\ Eligible(pid)
              /\ TotalVotes(pid) >= Quorum
              /\ Proposal(pid).yes_votes <= Proposal(pid).no_votes)
                => execute_proposal_abort(TreasuryAddr, pid) = OK
          /\ (/\ Exists(pid)
              /\ Executes(pid)
              /\ TotalVotes(pid) >= Quorum
              /\ Proposal(pid).yes_votes <= Proposal(pid).no_votes)
                => /\ Treasury'.proposals[pid].status = STATUS_REJECTED
                   /\ Treasury'.proposals[pid].executed
                   /\ Treasury'.total_funds = Treasury.total_funds
                   /\ coinStore' = coinStore
                   /\ result'.events =
                        ExecutedEvent(pid, RESULT_REJECTED, 0)
          /\ (/\ Exists(pid)
              /\ Executes(pid)
              /\ Treasury'.proposals[pid].status = STATUS_FUNDED)
                => Proposal(pid).yes_votes > Proposal(pid).no_votes]_vars

C8_Witness ==
    \E pid \in ProposalIds :
        /\ Exists(pid)
        /\ result.op = "execute_proposal"
        /\ result.proposal_id = pid
        /\ Proposal(pid).status = STATUS_REJECTED
        /\ Proposal(pid).yes_votes = Proposal(pid).no_votes
        /\ Proposal(pid).yes_votes > 0

(* C9: an execute call on a proposal that has already been executed        *)
(* aborts with E_PROPOSAL_ALREADY_EXECUTED.                                *)
C9_SecondExecuteAlreadyExecuted ==
    \A pid \in ProposalIds :
        (Exists(pid) /\ Proposal(pid).executed)
            => execute_proposal_abort(TreasuryAddr, pid)
                   = E_PROPOSAL_ALREADY_EXECUTED

(* C10: a proposal enters the table Open and unexecuted; its status        *)
(* changes only in a committed execute of that proposal, from Open to      *)
(* Funded, Rejected or QuorumNotMet, together with executed = true; a      *)
(* proposal in one of these three statuses keeps its status, and an        *)
(* executed flag that is true stays true.                                  *)
C10_StatusChangesOnce ==
    [][HasTreasury
          => \A pid \in ProposalIds :
                IF pid \notin DOMAIN Treasury.proposals
                THEN pid \in DOMAIN Treasury'.proposals
                        => /\ Treasury'.proposals[pid].status = STATUS_OPEN
                           /\ ~Treasury'.proposals[pid].executed
                ELSE LET p == Proposal(pid)
                         status_after == Treasury'.proposals[pid].status
                         executed_after == Treasury'.proposals[pid].executed
                     IN
                     /\ pid \in DOMAIN Treasury'.proposals
                     /\ status_after # p.status
                           => /\ p.status = STATUS_OPEN
                              /\ status_after \in {STATUS_FUNDED,
                                                   STATUS_REJECTED,
                                                   STATUS_QUORUM_NOT_MET}
                              /\ Executes(pid)
                              /\ executed_after
                     /\ p.status # STATUS_OPEN
                           => /\ p.status \in {STATUS_FUNDED, STATUS_REJECTED,
                                               STATUS_QUORUM_NOT_MET}
                              /\ p.executed
                              /\ status_after = p.status
                     /\ p.executed => executed_after]_vars

C10_Witness ==
    \E pid \in ProposalIds :
        /\ Exists(pid)
        /\ Proposal(pid).status
               \in {STATUS_FUNDED, STATUS_REJECTED, STATUS_QUORUM_NOT_MET}
        /\ Proposal(pid).executed
        /\ result.op \in {"deposit_funds", "stake_tokens", "transfer_tokens",
                          "distribute_tokens", "emergency_pause"}

Balance(m) ==
    daoMember[m].governance_tokens.balance
        + daoMember[m].governance_tokens.staked_balance

(* C11: yes_votes and no_votes of a proposal never decrease; they change   *)
(* only in a committed vote on that proposal, taken while its status is    *)
(* Open; once the status is not Open both tallies stay as they are.        *)
C11_TalliesOnlyGrowWhileOpen ==
    [][\A pid \in ProposalIds :
          Exists(pid)
              => LET p == Proposal(pid)
                     q == Treasury'.proposals[pid]
                 IN
                 /\ q.yes_votes >= p.yes_votes
                 /\ q.no_votes >= p.no_votes
                 /\ (q.yes_votes # p.yes_votes \/ q.no_votes # p.no_votes)
                       => /\ p.status = STATUS_OPEN
                          /\ result'.op = "vote_on_proposal"
                          /\ result'.proposal_id = pid
                 /\ p.status # STATUS_OPEN
                       => /\ q.yes_votes = p.yes_votes
                          /\ q.no_votes = p.no_votes]_vars

C11_Witness ==
    \E pid \in ProposalIds :
        /\ Exists(pid)
        /\ Proposal(pid).status # STATUS_OPEN
        /\ Proposal(pid).yes_votes > 0
        /\ Proposal(pid).no_votes > 0
        /\ \E s \in Users :
              /\ s \in DOMAIN daoMember
              /\ s \notin DOMAIN Proposal(pid).voters
              /\ vote_on_proposal_abort(s, TreasuryAddr, pid)
                     = E_PROPOSAL_NOT_OPEN

(* C12: a member record is never removed, and a member's balance +         *)
(* staked_balance decreases only in a committed transfer_tokens sent by    *)
(* that member; a committed stake_tokens leaves every member's sum as it   *)
(* is, and a vote or a distribution never lowers the sum of any member.    *)
C12_TokensOnlyLeaveByTransfer ==
    [][\A m \in Users :
          m \in DOMAIN daoMember
              => /\ m \in DOMAIN daoMember'
                 /\ Balance(m)' < Balance(m)
                       => /\ result'.op = "transfer_tokens"
                          /\ result'.sender = m
                 /\ result'.op = "stake_tokens"
                       => Balance(m)' = Balance(m)
                 /\ result'.op \in {"vote_on_proposal", "distribute_tokens"}
                       => Balance(m)' >= Balance(m)]_vars

C12_Witness ==
    /\ result.op = "vote_on_proposal"
    /\ result.sender = "a2"
    /\ result.events[1].reward_earned = PARTICIPATION_REWARD
    /\ calls.transfer >= 1
    /\ calls.stake >= 1
    /\ daoMember["a2"].governance_tokens.staked_balance > 0
    /\ Balance("a2") = 100 + 1000 + PARTICIPATION_REWARD
    /\ Balance("a1") < INITIAL_TOKEN_SUPPLY \div 2

(* C13: the power recorded for a voter of a proposal is the voter's staked *)
(* balance plus a tenth of the reputation at the moment of the vote, the   *)
(* tally of the chosen side grows by exactly that power, and the record    *)
(* never changes afterwards: stake, transfer, distribute, create and votes *)
(* on other proposals leave the voter set and both tallies as they are.    *)
C13_PowerFixedAtVote ==
    [][\A pid \in ProposalIds :
          Exists(pid)
              => LET p == Proposal(pid)
                     q == Treasury'.proposals[pid]
                 IN
                 /\ \A s \in DOMAIN p.voters :
                       /\ s \in DOMAIN q.voters
                       /\ q.voters[s] = p.voters[s]
                 /\ \A s \in Users :
                       Votes(s, pid)
                           => LET power ==
                                    daoMember[s].governance_tokens.staked_balance
                                        + (daoMember[s].reputation_score \div 10)
                              IN
                              /\ s \notin DOMAIN p.voters
                              /\ DOMAIN q.voters = DOMAIN p.voters \cup {s}
                              /\ q.voters[s] = power
                              /\ q.yes_votes + q.no_votes
                                     = p.yes_votes + p.no_votes + power
                 /\ ~(result'.op = "vote_on_proposal"
                          /\ result'.proposal_id = pid)
                       => /\ q.voters = p.voters
                          /\ q.yes_votes = p.yes_votes
                          /\ q.no_votes = p.no_votes]_vars

C13_Witness ==
    \E pid \in ProposalIds, other \in ProposalIds : \E s \in Users :
        /\ pid # other
        /\ Exists(pid)
        /\ Exists(other)
        /\ Proposal(other).creation_time > Proposal(pid).creation_time
        /\ s \in DOMAIN Proposal(pid).voters
        /\ calls.stake >= 1
        /\ calls.transfer + calls.distribute >= 1
        /\ result.op = "vote_on_proposal"
        /\ result.sender = s
        /\ result.proposal_id = other
        /\ Proposal(pid).voters[s] < Proposal(other).voters[s]
        /\ TotalVotes(pid) = Proposal(pid).voters[s]

(* C14: an execute call on an open proposal before its execution_time     *)
(* aborts with E_PROPOSAL_NOT_READY and no execute of it commits;          *)
(* execution_time is voting_end_time + 86400, and a proposal whose status  *)
(* is not Open is only found at a clock time >= its execution_time.        *)
C14_NotReadyBeforeExecutionTime ==
    [][\A pid \in ProposalIds :
          Exists(pid)
              => LET p == Proposal(pid) IN
                 /\ p.execution_time = p.voting_end_time + 86400
                 /\ (p.status = STATUS_OPEN /\ now < p.execution_time)
                       => /\ execute_proposal_abort(TreasuryAddr, pid)
                                 = E_PROPOSAL_NOT_READY
                          /\ ~Executes(pid)
                 /\ p.status # STATUS_OPEN => now >= p.execution_time
                 /\ Treasury'.proposals[pid].status # STATUS_OPEN
                       => now' >= p.voting_end_time + 86400]_vars

C14_Witness ==
    \E pid \in ProposalIds :
        /\ Exists(pid)
        /\ Proposal(pid).status = STATUS_OPEN
        /\ now = Proposal(pid).voting_end_time
        /\ Proposal(pid).yes_votes > Proposal(pid).no_votes
        /\ execute_proposal_abort(TreasuryAddr, pid) = E_PROPOSAL_NOT_READY

(* C15: a member who has not voted and has voting power can vote on an     *)
(* Open proposal of an unpaused DAO at any clock time up to and including  *)
(* voting_end_time; after voting_end_time every vote of a member aborts    *)
(* with E_VOTING_ENDED although the status is still Open, no vote on the   *)
(* proposal commits, and its tallies and voter set stay as they are.       *)
C15_VotingWindowInclusive ==
    [][\A pid \in ProposalIds :
          (Exists(pid) /\ Proposal(pid).status = STATUS_OPEN
               /\ ~Treasury.paused)
              => LET p == Proposal(pid)
                     q == Treasury'.proposals[pid]
                 IN
                 /\ \A s \in DOMAIN daoMember :
                       LET e == vote_on_proposal_abort(s, TreasuryAddr, pid)
                       IN
                       /\ (/\ now <= p.voting_end_time
                           /\ s \notin DOMAIN p.voters
                           /\ daoMember[s].governance_tokens.staked_balance
                                + (daoMember[s].reputation_score \div 10) > 0)
                             => e = OK
                       /\ now > p.voting_end_time => e = E_VOTING_ENDED
                 /\ now > p.voting_end_time
                       => /\ ~(result'.op = "vote_on_proposal"
                                  /\ result'.proposal_id = pid)
                          /\ q.yes_votes = p.yes_votes
                          /\ q.no_votes = p.no_votes
                          /\ q.voters = p.voters]_vars

C15_Witness ==
    \E pid \in ProposalIds :
        /\ Exists(pid)
        /\ result.op = "vote_on_proposal"
        /\ result.proposal_id = pid
        /\ now = Proposal(pid).voting_end_time
        /\ Proposal(pid).status = STATUS_OPEN

Creates == result'.op = "create_investment_proposal"

(* C16: the keys of the proposal table are exactly 0 .. proposal_count - 1 *)
(* and every stored proposal's id is its key, before and after every step; *)
(* proposal_count never decreases, grows by exactly 1 in a committed       *)
(* create_investment_proposal (whose new key is the old count) and stays   *)
(* as it is in every other step; no key is removed and no id changes.      *)
C16_DenseProposalIds ==
    [][HasTreasury
          => LET t == Treasury
                 u == Treasury'
             IN
             /\ DOMAIN t.proposals = 0 .. (t.proposal_count - 1)
             /\ DOMAIN u.proposals = 0 .. (u.proposal_count - 1)
             /\ \A pid \in DOMAIN t.proposals :
                   /\ t.proposals[pid].id = pid
                   /\ pid \in DOMAIN u.proposals
                   /\ u.proposals[pid].id = pid
             /\ \A pid \in DOMAIN u.proposals : u.proposals[pid].id = pid
             /\ u.proposal_count >= t.proposal_count
             /\ IF Creates
                THEN /\ u.proposal_count = t.proposal_count + 1
                     /\ result'.proposal_id = t.proposal_count
                     /\ DOMAIN u.proposals
                            = DOMAIN t.proposals \cup {t.proposal_count}
                ELSE /\ u.proposal_count = t.proposal_count
                     /\ DOMAIN u.proposals = DOMAIN t.proposals]_vars

C16_Witness ==
    /\ HasTreasury
    /\ Treasury.proposal_count = 2
    /\ DOMAIN Treasury.proposals = {0, 1}
    /\ Treasury.proposals[0].status # STATUS_OPEN
    /\ Treasury.proposals[1].id = 1

(* C20: a committed create_investment_proposal at clock time t stores,     *)
(* under the old proposal_count, an Open, unexecuted proposal with zero    *)
(* tallies and no voters, creation_time t, voting_end_time t + 604800      *)
(* (t + 86400 for Emergency) and execution_time voting_end_time + 86400;   *)
(* the proposer gains 1 proposals_created and 5 reputation; total_funds,   *)
(* the coin balances, the other treasury fields, the other members and the *)
(* other proposals stay as they are.                                       *)
C20_CreateStoresProposal ==
    [][(HasTreasury /\ Creates)
          => LET pid == Treasury.proposal_count
                 s == result'.sender
                 ev == result'.events[1]
                 q == Treasury'.proposals[pid]
                 voting_end == IF ev.category = 2 THEN now + 86400
                               ELSE now + 604800
             IN
             /\ result'.proposal_id = pid
             /\ ev.proposal_id = pid
             /\ ev.proposer = s
             /\ q.id = pid
             /\ q.proposer = s
             /\ q.category = ev.category
             /\ q.requested_amount = ev.requested_amount
             /\ q.status = STATUS_OPEN
             /\ q.yes_votes = 0
             /\ q.no_votes = 0
             /\ q.executed = FALSE
             /\ DOMAIN q.voters = {}
             /\ q.creation_time = now
             /\ q.voting_end_time = voting_end
             /\ q.execution_time = voting_end + 86400
             /\ Treasury' = [Treasury EXCEPT
                                !.proposals = @ @@ (pid :> q),
                                !.proposal_count = pid + 1]
             /\ \A other \in DOMAIN Treasury.proposals :
                   Treasury'.proposals[other] = Treasury.proposals[other]
             /\ daoMember' = [daoMember EXCEPT
                                 ![s].proposals_created = @ + 1,
                                 ![s].reputation_score = @ + 5]
             /\ coinStore' = coinStore
             /\ now' = now]_vars

C20_Witness ==
    \E pid \in ProposalIds :
        /\ Exists(pid)
        /\ result.op = "create_investment_proposal"
        /\ result.proposal_id = pid
        /\ Proposal(pid).category = CATEGORY_EMERGENCY
        /\ Proposal(pid).creation_time > 0
        /\ Proposal(pid).voting_end_time
               = Proposal(pid).creation_time + 86400
        /\ Treasury.proposal_count = 2
        /\ "a2" \in DOMAIN daoMember

(* C17: every committed transaction of an entry function emits at least    *)
(* one event.                                                              *)
C17_EveryOperationEmits ==
    [][result'.op # "none" => Len(result'.events) >= 1]_vars

(* C18: a call that meets an error condition is never seen as a change of *)
(* state: every step that changes the state is either a clock step, which  *)
(* leaves the storage as it is, or the committed call of an entry function *)
(* for which none of the error conditions held in the state before the     *)
(* step (authorization, paused, proposal state, tokens and funds, repeated *)
(* vote or execution, missing member, proposal or coin store, input).      *)
C18_FailedCallsChangeNothing ==
    [][LET op == result'.op
           s == result'.sender
           pid == result'.proposal_id
           ev == result'.events[1]
           member == s \in DOMAIN daoMember
           tokens == daoMember[s].governance_tokens
       IN
       CASE op = "none" -> chain' = chain /\ calls' = calls /\ now' > now
         [] op = "initialize_dao" ->
                /\ ~member
                /\ \E seed \in Seeds :
                      create_resource_address(s, seed) \notin DOMAIN daoTreasury
         [] op = "join_dao" -> ~member
         [] op = "deposit_funds" ->
                /\ HasTreasury
                /\ ~Treasury.paused
                /\ s \in DOMAIN coinStore
                /\ coinStore[s] >= ev.amount
         [] op = "stake_tokens" ->
                /\ HasTreasury
                /\ member
                /\ ~Treasury.paused
                /\ tokens.balance >= ev.amount
         [] op = "transfer_tokens" ->
                /\ member
                /\ \E r \in TransferRecipients, amt \in TransferAmounts :
                      /\ r \in DOMAIN daoMember
                      /\ tokens.balance >= amt
         [] op = "create_investment_proposal" ->
                /\ HasTreasury
                /\ member
                /\ ~Treasury.paused
                /\ ev.category \in {0, 1, 2}
                /\ ev.requested_amount >= 1000
                /\ tokens.balance + tokens.staked_balance >= 1000
                /\ ev.category = 0
                      => ev.requested_amount <= Treasury.total_funds
         [] op = "vote_on_proposal" ->
                /\ Exists(pid)
                /\ member
                /\ ~Treasury.paused
                /\ Proposal(pid).status = STATUS_OPEN
                /\ now <= Proposal(pid).voting_end_time
                /\ s \notin DOMAIN Proposal(pid).voters
                /\ tokens.staked_balance
                       + (daoMember[s].reputation_score \div 10) > 0
         [] op = "execute_proposal" ->
                /\ Exists(pid)
                /\ Proposal(pid).status = STATUS_OPEN
                /\ ~Proposal(pid).executed
                /\ now >= Proposal(pid).execution_time
                /\ (/\ Proposal(pid).category = CATEGORY_FUNDING
                    /\ TotalVotes(pid) >= Quorum
                    /\ Proposal(pid).yes_votes > Proposal(pid).no_votes)
                      => /\ Proposal(pid).requested_amount
                                <= coinStore[TreasuryAddr]
                         /\ Proposal(pid).requested_amount
                                <= Treasury.total_funds
                         /\ Proposal(pid).recipient \in DOMAIN coinStore
         [] op = "distribute_tokens" ->
                /\ HasTreasury
                /\ s = Treasury.admin
                /\ ev.recipient \in DOMAIN daoMember
         [] op \in {"emergency_pause", "emergency_unpause"} ->
                /\ HasTreasury
                /\ s = Treasury.admin]_vars

C18_Witness ==
    /\ "a1" \in DOMAIN daoMember
    /\ "a2" \notin DOMAIN daoMember
    /\ daoMember["a1"].governance_tokens.balance >= 1000
    /\ transfer_tokens_abort("a1", "a2", 1000) = MISSING_DATA
    /\ result.op = "vote_on_proposal"
    /\ vote_on_proposal_abort("a1", TreasuryAddr, result.proposal_id)
           = E_ALREADY_VOTED
    /\ Proposal(result.proposal_id).recipient = "a4"
    /\ Proposal(result.proposal_id).category = CATEGORY_FUNDING
    /\ execute_proposal_abort(TreasuryAddr, result.proposal_id)
           = E_PROPOSAL_NOT_READY

(* C19: for a member calling create_investment_proposal the abort code is  *)
(* E_DAO_PAUSED when the treasury is paused, else E_INVALID_CATEGORY for a *)
(* category above 2, else E_PROPOSAL_TOO_SMALL for an amount below 1000,   *)
(* else E_INSUFFICIENT_TOKENS for balance + staked_balance below the       *)
(* threshold of 1000, else E_INSUFFICIENT_FUNDS for a Funding proposal     *)
(* above total_funds, else none: Governance and Emergency proposals pass   *)
(* whatever total_funds is.  A proposal enters the table only in a         *)
(* committed create whose arguments meet all of these conditions.          *)
C19_CreateRejections ==
    /\ [](HasTreasury
             => /\ Treasury.governance_threshold = 1000
                /\ \A s \in DOMAIN daoMember : \A c \in Categories :
                   \A amt \in RequestAmounts :
                      LET e == create_investment_proposal_abort(
                                   s, TreasuryAddr, c, amt)
                      IN
                      e = IF Treasury.paused THEN E_DAO_PAUSED
                          ELSE IF c > 2 THEN E_INVALID_CATEGORY
                          ELSE IF amt < 1000 THEN E_PROPOSAL_TOO_SMALL
                          ELSE IF Balance(s) < 1000
                               THEN E_INSUFFICIENT_TOKENS
                          ELSE IF c = 0 /\ amt > Treasury.total_funds
                               THEN E_INSUFFICIENT_FUNDS
                          ELSE OK)
    /\ [][HasTreasury
            => IF Creates
               THEN LET ev == result'.events[1] IN
                    /\ ~Treasury.paused
                    /\ ev.category <= 2
                    /\ ev.requested_amount >= 1000
                    /\ Balance(result'.sender) >= 1000
                    /\ ev.category = 0
                          => ev.requested_amount <= Treasury.total_funds
               ELSE DOMAIN Treasury'.proposals
                        = DOMAIN Treasury.proposals]_vars

C19_Witness ==
    /\ result.op = "emergency_pause"
    /\ Treasury.paused
    /\ Exists(0)
    /\ Proposal(0).category # CATEGORY_FUNDING
    /\ Proposal(0).requested_amount > Treasury.total_funds
    /\ Balance("a1") >= 1000
    /\ create_investment_proposal_abort("a1", TreasuryAddr, CATEGORY_GOVERNANCE,
                                        MIN_PROPOSAL_AMOUNT)
           = E_DAO_PAUSED
    /\ "a2" \in DOMAIN daoMember
    /\ Balance("a2") < 1000
    /\ create_investment_proposal_abort("a2", TreasuryAddr, CATEGORY_EMERGENCY,
                                        MIN_PROPOSAL_AMOUNT)
           = E_DAO_PAUSED

PowerOf(m) ==
    daoMember[m].governance_tokens.staked_balance
        + (daoMember[m].reputation_score \div 10)

(* C21: the power a committed vote records, reports and adds to the tally  *)
(* is staked_balance + floor(reputation_score / 10) of the voter in the    *)
(* state before the vote, which is what get_voting_power returns for the   *)
(* voter in that state; the reputation point and the reward of the vote    *)
(* itself are not part of it.                                              *)
C21_PowerIsQueryBeforeVote ==
    [][/\ \A m \in Users :
             get_voting_power(m) =
                 IF m \in DOMAIN daoMember
                 THEN [abort |-> OK, value |-> PowerOf(m)]
                 ELSE [abort |-> MISSING_DATA]
       /\ \A pid \in ProposalIds : \A s \in Users :
             (Exists(pid) /\ Votes(s, pid))
                 => LET p == Proposal(pid)
                        q == Treasury'.proposals[pid]
                        queried == get_voting_power(s)
                    IN
                    /\ queried.abort = OK
                    /\ result'.events[1].voting_power = queried.value
                    /\ q.voters[s] = queried.value
                    /\ (q.yes_votes + q.no_votes)
                           - (p.yes_votes + p.no_votes)
                         = queried.value
                    /\ queried.value = PowerOf(s)]_vars

C21_Witness ==
    /\ result.op = "vote_on_proposal"
    /\ result.events[1].voting_power # get_voting_power(result.sender).value
    /\ TotalVotes(result.proposal_id) = result.events[1].voting_power

(* C22: a committed vote of member s with power p on proposal pid adds     *)
(* s -> p to the voter set of pid, adds p to yes_votes for a true choice   *)
(* and to no_votes otherwise, adds 1 to votes_cast and reputation_score    *)
(* and 10 to balance and total_earned of s, emits one VoteCastEvent with   *)
(* power p and reward 10, and changes nothing else.                        *)
C22_VoteEffect ==
    [][\A pid \in ProposalIds : \A s \in Users :
          (Exists(pid) /\ Votes(s, pid))
              => LET ev == result'.events[1]
                     p == ev.voting_power
                     old == Proposal(pid)
                     new == [old EXCEPT
                               !.voters = @ @@ (s :> p),
                               !.yes_votes = IF ev.vote THEN @ + p ELSE @,
                               !.no_votes = IF ev.vote THEN @ ELSE @ + p]
                 IN
                 /\ s \notin DOMAIN old.voters
                 /\ p > 0
                 /\ result'.events =
                      <<[type |-> "VoteCastEvent", proposal_id |-> pid,
                         voter |-> s, vote |-> ev.vote, voting_power |-> p,
                         reward_earned |-> 10]>>
                 /\ Treasury' = [Treasury EXCEPT !.proposals[pid] = new]
                 /\ daoMember' = [daoMember EXCEPT
                       ![s].votes_cast = @ + 1,
                       ![s].governance_tokens.balance = @ + 10,
                       ![s].governance_tokens.total_earned = @ + 10,
                       ![s].reputation_score = @ + 1]
                 /\ coinStore' = coinStore
                 /\ now' = now]_vars

C22_Witness ==
    /\ result.op = "vote_on_proposal"
    /\ result.events[1].vote = FALSE
    /\ Proposal(result.proposal_id).no_votes = result.events[1].voting_power
    /\ Proposal(result.proposal_id).yes_votes > 0
    /\ Cardinality(DOMAIN daoMember) = 3

(* C23: a committed stake of amount by member s takes amount from the      *)
(* balance of s, adds it to the staked_balance of s and to staked_tokens   *)
(* of the treasury, adds floor(amount / 100) to the reputation of s and    *)
(* changes nothing else; for a member of an unpaused DAO the call aborts   *)
(* with E_INSUFFICIENT_TOKENS exactly when amount exceeds the balance.     *)
C23_StakeEffect ==
    [][HasTreasury
          => /\ \A s \in DOMAIN daoMember : \A amt \in StakeAmounts :
                   ~Treasury.paused
                       => stake_tokens_abort(s, TreasuryAddr, amt)
                            = IF amt > daoMember[s].governance_tokens.balance
                              THEN E_INSUFFICIENT_TOKENS ELSE OK
             /\ result'.op = "stake_tokens"
                   => LET s == result'.sender
                          amt == result'.events[1].amount
                      IN
                      /\ amt <= daoMember[s].governance_tokens.balance
                      /\ daoMember' = [daoMember EXCEPT
                            ![s].governance_tokens.balance = @ - amt,
                            ![s].governance_tokens.staked_balance = @ + amt,
                            ![s].reputation_score = @ + (amt \div 100)]
                      /\ Treasury' = [Treasury EXCEPT
                                         !.staked_tokens = @ + amt]
                      /\ coinStore' = coinStore
                      /\ now' = now
             /\ result'.op # "stake_tokens"
                   => Treasury'.staked_tokens = Treasury.staked_tokens]_vars

C23_Witness ==
    /\ result.op = "stake_tokens"
    /\ result.events[1].amount = 100
    /\ daoMember[result.sender].governance_tokens.balance = 0
    /\ daoMember[result.sender].reputation_score = 11
    /\ stake_tokens_abort(result.sender, TreasuryAddr, 52)
           = E_INSUFFICIENT_TOKENS

RECURSIVE SumBalances(_)
SumBalances(S) ==
    IF S = {} THEN 0
    ELSE LET m == CHOOSE x \in S : TRUE
         IN daoMember[m].governance_tokens.balance + SumBalances(S \ {m})

Staked(m) == daoMember[m].governance_tokens.staked_balance

(* C24: a transfer of amount from a member to an existing member commits   *)
(* when amount <= the sender's balance, debits the sender and credits the  *)
(* recipient by amount (a self-transfer leaves the balance as it was),     *)
(* keeps the sum of all balances, the staked balances and the set of       *)
(* member records; with amount > balance it aborts with                    *)
(* E_INSUFFICIENT_TOKENS and with a recipient that has no record it        *)
(* aborts, and an aborted call writes nothing.                             *)
C24_TransferConservesBalances ==
    [][/\ \A s \in DOMAIN daoMember : \A r \in Users :
             \A amt \in TransferAmounts :
                LET e == transfer_tokens_abort(s, r, amt) IN
                /\ amt > daoMember[s].governance_tokens.balance
                       => e = E_INSUFFICIENT_TOKENS
                /\ r \notin DOMAIN daoMember => e # OK
                /\ (amt <= daoMember[s].governance_tokens.balance
                       /\ r \in DOMAIN daoMember) => e = OK
       /\ result'.op = "transfer_tokens"
             => LET s == result'.sender IN
                /\ \E r \in DOMAIN daoMember : \E amt \in TransferAmounts :
                      /\ amt <= daoMember[s].governance_tokens.balance
                      /\ daoMember' =
                           [[daoMember EXCEPT
                               ![s].governance_tokens.balance = @ - amt]
                            EXCEPT ![r].governance_tokens.balance = @ + amt]
                      /\ r = s => daoMember' = daoMember
                /\ DOMAIN daoMember' = DOMAIN daoMember
                /\ SumBalances(DOMAIN daoMember)' = SumBalances(DOMAIN daoMember)
                /\ \A m \in DOMAIN daoMember : Staked(m)' = Staked(m)
                /\ UNCHANGED <<daoTreasury, coinStore, now>>
       /\ result' = result => DOMAIN daoMember' = DOMAIN daoMember]_vars

C24_Witness ==
    /\ result.op = "transfer_tokens"
    /\ result.sender = "a2"
    /\ daoMember["a2"].governance_tokens.balance = 1100
    /\ "a3" \notin DOMAIN daoMember
    /\ transfer_tokens_abort("a2", "a3", 1000) = MISSING_DATA

(* C25: join_dao by an address without a member record creates the record  *)
(* balance 100, staked 0, total_earned 100, reputation 10, counters 0 and  *)
(* changes nothing else; by an address that has a record, the founder      *)
(* seeded by initialize_dao included, it aborts; no step removes a member  *)
(* record.                                                                 *)
C25_JoinCreatesOnce ==
    [][/\ \A m \in Users :
             (join_dao_abort(m) = OK) <=> (m \notin DOMAIN daoMember)
       /\ HasTreasury
             => /\ Treasury.admin \in DOMAIN daoMember
                /\ join_dao_abort(Treasury.admin) # OK
       /\ result'.op = "join_dao"
             => LET s == result'.sender IN
                /\ s \notin DOMAIN daoMember
                /\ daoMember' = daoMember @@
                      (s :> [governance_tokens |->
                                 [balance |-> 100, staked_balance |-> 0,
                                  total_earned |-> 100],
                             proposals_created |-> 0,
                             votes_cast |-> 0,
                             reputation_score |-> 10])
                /\ UNCHANGED <<daoTreasury, coinStore, now>>
       /\ DOMAIN daoMember \subseteq DOMAIN daoMember']_vars

C25_Witness ==
    /\ result.op = "join_dao"
    /\ result.sender = "a3"
    /\ daoMember["a3"].governance_tokens.balance = 100
    /\ HasTreasury
    /\ join_dao_abort(Treasury.admin) = RESOURCE_ALREADY_EXISTS
    /\ "a2" \in DOMAIN daoMember
    /\ daoMember["a2"].governance_tokens.staked_balance > 0

(* C26: distribute_tokens by a caller other than the admin aborts with     *)
(* E_NOT_AUTHORIZED; by the admin for a recipient with a member record it  *)
(* commits, paused or not, and adds amount to the balance and the          *)
(* total_earned of the recipient and changes nothing else.                 *)
C26_DistributeAdminOnly ==
    [][HasTreasury
          => /\ \A s \in Users : \A r \in Users :
                   LET e == distribute_tokens_abort(s, TreasuryAddr, r) IN
                   /\ s # Treasury.admin => e = E_NOT_AUTHORIZED
                   /\ (s = Treasury.admin /\ r \in DOMAIN daoMember) => e = OK
             /\ result'.op = "distribute_tokens"
                   => LET ev == result'.events[1] IN
                      /\ result'.sender = Treasury.admin
                      /\ ev.recipient \in DOMAIN daoMember
                      /\ daoMember' = [daoMember EXCEPT
                            ![ev.recipient].governance_tokens.balance =
                                @ + ev.amount,
                            ![ev.recipient].governance_tokens.total_earned =
                                @ + ev.amount]
                      /\ UNCHANGED <<daoTreasury, coinStore, now>>]_vars

C26_Witness ==
    /\ result.op = "distribute_tokens"
    /\ Treasury.paused
    /\ result.events[1].recipient = "a2"
    /\ daoMember["a2"].governance_tokens.balance = 1100
    /\ daoMember["a2"].governance_tokens.total_earned = 1100
    /\ distribute_tokens_abort("a2", TreasuryAddr, "a2") = E_NOT_AUTHORIZED

(* C27: emergency_pause and emergency_unpause abort with E_NOT_AUTHORIZED  *)
(* for a caller other than the admin; for the admin they commit, set       *)
(* paused to true and to false, emit one EmergencyActionEvent with the     *)
(* admin and the new flag and change nothing else; no other operation      *)
(* changes the flag, and the admin set by initialize_dao never changes.    *)
C27_PauseSwitchAdminOnly ==
    [][/\ \A t \in DOMAIN daoTreasury' \ DOMAIN daoTreasury :
             /\ result'.op = "initialize_dao"
             /\ daoTreasury'[t].admin = result'.sender
       /\ HasTreasury
          => /\ \A s \in Users :
                   emergency_abort(s, TreasuryAddr)
                       = IF s = Treasury.admin THEN OK ELSE E_NOT_AUTHORIZED
             /\ Treasury'.admin = Treasury.admin
             /\ \A flag \in BOOLEAN :
                   result'.op = (IF flag THEN "emergency_pause"
                                 ELSE "emergency_unpause")
                       => /\ result'.sender = Treasury.admin
                          /\ daoTreasury' = [daoTreasury EXCEPT
                                ![TreasuryAddr].paused = flag]
                          /\ result'.events =
                               <<[type |-> "EmergencyActionEvent",
                                  admin |-> Treasury.admin,
                                  action |-> IF flag THEN "PAUSE"
                                             ELSE "UNPAUSE",
                                  paused |-> flag]>>
                          /\ UNCHANGED <<daoMember, coinStore, now>>
             /\ result'.op \notin {"emergency_pause", "emergency_unpause"}
                   => Treasury'.paused = Treasury.paused]_vars

C27_Witness ==
    /\ result.op = "emergency_unpause"
    /\ ~Treasury.paused
    /\ Treasury.total_funds > 0
    /\ Treasury.admin = "a1"
    /\ emergency_abort("a2", TreasuryAddr) = E_NOT_AUTHORIZED
    /\ "a2" \in DOMAIN daoMember

(* C28: while the DAO is paused, deposit_funds, stake_tokens,              *)
(* create_investment_proposal and vote_on_proposal called by a member      *)
(* abort with E_DAO_PAUSED for every argument, and none of them commits;   *)
(* a pause or unpause writes nothing but the paused flag, so after an      *)
(* unpause the storage is what it was before the pause and none of these   *)
(* calls aborts with E_DAO_PAUSED.                                         *)
C28_PausedRejectsGuardedCalls ==
    [][HasTreasury
          => /\ Treasury.paused
                   => /\ \A m \in DOMAIN daoMember :
                         /\ \A amt \in DepositAmounts \cup {0, 2 * InitCoin} :
                               deposit_funds_abort(m, TreasuryAddr, amt)
                                   = E_DAO_PAUSED
                         /\ \A amt \in StakeAmounts \cup {0} :
                               stake_tokens_abort(m, TreasuryAddr, amt)
                                   = E_DAO_PAUSED
                         /\ \A c \in Categories : \A amt \in RequestAmounts :
                               create_investment_proposal_abort(
                                   m, TreasuryAddr, c, amt) = E_DAO_PAUSED
                         /\ \A pid \in ProposalIds :
                               vote_on_proposal_abort(m, TreasuryAddr, pid)
                                   = E_DAO_PAUSED
                      /\ result'.op \notin
                            {"deposit_funds", "stake_tokens",
                             "create_investment_proposal", "vote_on_proposal"}
             /\ result'.op \in {"emergency_pause", "emergency_unpause"}
                   => /\ [Treasury' EXCEPT !.paused = Treasury.paused]
                            = Treasury
                      /\ UNCHANGED <<daoMember, coinStore, now>>
             /\ result'.op = "emergency_unpause"
                   => \A m \in DOMAIN daoMember :
                         /\ \A amt \in DepositAmounts :
                               deposit_funds_abort(m, TreasuryAddr, amt)'
                                   # E_DAO_PAUSED
                         /\ \A amt \in StakeAmounts :
                               stake_tokens_abort(m, TreasuryAddr, amt)'
                                   # E_DAO_PAUSED
                         /\ \A c \in Categories : \A amt \in RequestAmounts :
                               create_investment_proposal_abort(
                                   m, TreasuryAddr, c, amt)' # E_DAO_PAUSED
                         /\ \A pid \in ProposalIds :
                               vote_on_proposal_abort(m, TreasuryAddr, pid)'
                                   # E_DAO_PAUSED]_vars

C28_Witness ==
    /\ result.op = "emergency_pause"
    /\ Treasury.paused
    /\ Exists(0)
    /\ Proposal(0).status = STATUS_OPEN
    /\ now <= Proposal(0).voting_end_time
    /\ "a2" \in DOMAIN daoMember
    /\ "a2" \notin DOMAIN Proposal(0).voters
    /\ Staked("a2") > 0
    /\ daoMember["a2"].governance_tokens.balance >= 52
    /\ coinStore["a2"] >= 1000
    /\ vote_on_proposal_abort("a2", TreasuryAddr, 0) = E_DAO_PAUSED

RECURSIVE SumRequested(_, _)
SumRequested(proposals, S) ==
    IF S = {} THEN 0
    ELSE LET i == CHOOSE x \in S : TRUE
         IN proposals[i].requested_amount + SumRequested(proposals, S \ {i})

\* requested_amount summed over the Funding proposals that are Funded.
Spent ==
    SumRequested(Treasury.proposals,
                 {i \in DOMAIN Treasury.proposals :
                     /\ Treasury.proposals[i].category = CATEGORY_FUNDING
                     /\ Treasury.proposals[i].status = STATUS_FUNDED})

(* C29: total_funds is never negative and is the deposits minus the        *)
(* requested amounts of the Funded Funding proposals: both are 0 after     *)
(* initialize_dao, a committed deposit of any caller adds exactly its      *)
(* amount to total_funds and leaves the spent sum, and every other step    *)
(* leaves total_funds + spent as it is.                                    *)
C29_FundsLedger ==
    [][/\ \A t \in DOMAIN daoTreasury' \ DOMAIN daoTreasury :
             /\ result'.op = "initialize_dao"
             /\ daoTreasury'[t].total_funds = 0
             /\ DOMAIN daoTreasury'[t].proposals = {}
       /\ HasTreasury
             => /\ Treasury.total_funds >= 0
                /\ Treasury'.total_funds >= 0
                /\ IF result'.op = "deposit_funds"
                   THEN /\ Treasury'.total_funds
                              = Treasury.total_funds
                                  + result'.events[1].amount
                        /\ Spent' = Spent
                   ELSE Treasury'.total_funds + Spent'
                            = Treasury.total_funds + Spent]_vars

C29_Witness ==
    \E pid \in ProposalIds, spent \in ProposalIds :
        /\ Exists(pid)
        /\ Exists(spent)
        /\ Proposal(spent).status = STATUS_FUNDED
        /\ Proposal(spent).category = CATEGORY_FUNDING
        /\ Spent = MIN_PROPOSAL_AMOUNT
        /\ Treasury.total_funds = 0
        /\ "a2" \notin DOMAIN daoMember
        /\ coinStore["a2"] = 0
        /\ execute_proposal_abort(TreasuryAddr, pid) = ARITHMETIC_ERROR

(* C30: the staked_balance of a member and staked_tokens of the treasury   *)
(* never decrease; a staked_balance changes only in a committed            *)
(* stake_tokens of that member, which takes the amount from the balance,   *)
(* so nothing moves from staked_balance back to balance.                   *)
C30_StakeNeverReturns ==
    [][/\ \A m \in DOMAIN daoMember :
             /\ Staked(m)' >= Staked(m)
             /\ Staked(m)' # Staked(m)
                   => /\ result'.op = "stake_tokens"
                      /\ result'.sender = m
                      /\ daoMember'[m].governance_tokens.balance
                             = daoMember[m].governance_tokens.balance
                                 - (Staked(m)' - Staked(m))
       /\ HasTreasury
             => /\ Treasury'.staked_tokens >= Treasury.staked_tokens
                /\ Treasury'.staked_tokens # Treasury.staked_tokens
                      => result'.op = "stake_tokens"]_vars

C30_Witness ==
    /\ result.op = "transfer_tokens"
    /\ result.sender = "a2"
    /\ Staked("a2") = 100
    /\ Treasury.staked_tokens = 100
    /\ daoMember["a2"].governance_tokens.balance = 1000

Reputation(m) == daoMember[m].reputation_score

(* C31: the reputation_score of a member never decreases: a committed      *)
(* stake of the member adds floor(amount / 100), a committed create adds   *)
(* 5, a committed vote adds 1, and every other step, the execution of the  *)
(* member's proposal as Rejected or QuorumNotMet included, leaves it.      *)
C31_ReputationNeverDecreases ==
    [][\A m \in DOMAIN daoMember :
          /\ Reputation(m)' >= Reputation(m)
          /\ Reputation(m)' =
               Reputation(m)
                 + (IF result'.sender # m THEN 0
                    ELSE CASE result'.op = "stake_tokens" ->
                                  result'.events[1].amount \div 100
                           [] result'.op = "create_investment_proposal" -> 5
                           [] result'.op = "vote_on_proposal" -> 1
                           [] OTHER -> 0)]_vars

C31_Witness ==
    \E pid \in ProposalIds :
        /\ Exists(pid)
        /\ result.op = "execute_proposal"
        /\ result.proposal_id = pid
        /\ Proposal(pid).status \in {STATUS_REJECTED, STATUS_QUORUM_NOT_MET}
        /\ Proposal(pid).proposer = "a2"
        /\ Reputation("a2") = 10 + 9 + 5

(* C36: every member has reputation_score >= 10, so the voting power       *)
(* staked_balance + floor(reputation_score / 10) is at least 1 with        *)
(* nothing staked: vote_on_proposal never aborts with                      *)
(* E_INSUFFICIENT_TOKENS, and a committed vote of a member without stake   *)
(* has positive power and pays the reward.                                 *)
C36_EveryMemberHasPower ==
    [][/\ \A m \in DOMAIN daoMember :
             /\ Reputation(m) >= 10
             /\ get_voting_power(m).abort = OK
             /\ get_voting_power(m).value >= 1
             /\ \A pid \in ProposalIds :
                   HasTreasury
                       => vote_on_proposal_abort(m, TreasuryAddr, pid)
                              # E_INSUFFICIENT_TOKENS
       /\ \A m \in DOMAIN daoMember' : Reputation(m)' >= 10
       /\ result'.op = "vote_on_proposal"
             => /\ result'.events[1].voting_power >= 1
                /\ result'.events[1].reward_earned = PARTICIPATION_REWARD
                /\ daoMember'[result'.sender].governance_tokens.balance
                       = daoMember[result'.sender].governance_tokens.balance
                           + PARTICIPATION_REWARD]_vars

C36_Witness ==
    /\ result.op = "vote_on_proposal"
    /\ Staked(result.sender) = 0
    /\ result.events[1].voting_power = 1
    /\ daoMember[result.sender].governance_tokens.balance = 110
    /\ Proposal(result.proposal_id).yes_votes = 1

\* The status value 3 of the struct comment and of the client's enum.
STATUS_EXECUTED == 3

(* C35: for every proposal, executed is true exactly when the status is    *)
(* not Open, and the status is one of Open (0), Funded (1), Rejected (2)   *)
(* and QuorumNotMet (4); the value Executed (3) is never stored.           *)
C35_ExecutedIffResolved ==
    \A pid \in ProposalIds :
        Exists(pid)
            => /\ Proposal(pid).executed <=> Proposal(pid).status # STATUS_OPEN
               /\ Proposal(pid).status \in {STATUS_OPEN, STATUS_FUNDED,
                                            STATUS_REJECTED,
                                            STATUS_QUORUM_NOT_MET}
               /\ Proposal(pid).status # STATUS_EXECUTED

C35_Witness ==
    \E pid \in ProposalIds :
        /\ Exists(pid)
        /\ Proposal(pid).executed
        /\ Proposal(pid).status = STATUS_QUORUM_NOT_MET
        /\ result.op = "execute_proposal"
        /\ Proposal(pid).yes_votes > 0

RECURSIVE SumPowers(_, _)
SumPowers(voters, S) ==
    IF S = {} THEN 0
    ELSE LET s == CHOOSE x \in S : TRUE
         IN voters[s] + SumPowers(voters, S \ {s})

\* The number of proposals whose voter set holds member m.
VotedOn(m) ==
    IF HasTreasury
    THEN Cardinality({pid \in DOMAIN Treasury.proposals :
                         m \in DOMAIN Treasury.proposals[pid].voters})
    ELSE 0

VotesRecorded ==
    /\ \A pid \in ProposalIds :
          Exists(pid)
              => TotalVotes(pid)
                     = SumPowers(Proposal(pid).voters,
                                 DOMAIN Proposal(pid).voters)
    /\ \A m \in DOMAIN daoMember : daoMember[m].votes_cast = VotedOn(m)

(* C33: for every proposal yes_votes + no_votes is the sum of the powers   *)
(* in its voter set, and votes_cast of every member is the number of       *)
(* proposals whose voter set holds the member; a step records a member in  *)
(* a voter set exactly when it is the member's committed vote, which also  *)
(* raises the tally by the recorded power, votes_cast by 1 and balance     *)
(* and total_earned by the reward; no other step changes a tally.          *)
C33_VotesTalliesAndCountsAgree ==
    [][/\ VotesRecorded
       /\ VotesRecorded'
       /\ HasTreasury
             => \A pid \in ProposalIds :
                   Exists(pid)
                       => LET p == Proposal(pid)
                              q == Treasury'.proposals[pid]
                              added == DOMAIN q.voters \ DOMAIN p.voters
                          IN
                          /\ DOMAIN p.voters \subseteq DOMAIN q.voters
                          /\ (q.yes_votes + q.no_votes
                                 # p.yes_votes + p.no_votes) <=> added # {}
                          /\ \A m \in Users :
                                m \in added <=> Votes(m, pid)
                          /\ \A m \in added :
                                /\ q.yes_votes + q.no_votes
                                       = p.yes_votes + p.no_votes
                                           + q.voters[m]
                                /\ daoMember'[m].votes_cast
                                       = daoMember[m].votes_cast + 1
                                /\ daoMember'[m].governance_tokens.balance
                                       = daoMember[m].governance_tokens.balance
                                           + PARTICIPATION_REWARD
                                /\ daoMember'[m].governance_tokens.total_earned
                                       = daoMember[m].governance_tokens
                                             .total_earned
                                           + PARTICIPATION_REWARD
       /\ \A m \in DOMAIN daoMember :
             daoMember'[m].votes_cast # daoMember[m].votes_cast
                 => result'.op = "vote_on_proposal"
                       /\ result'.sender = m]_vars

C33_Witness ==
    \E pid \in ProposalIds :
        /\ Exists(pid)
        /\ Cardinality(DOMAIN Proposal(pid).voters) = 3
        /\ Proposal(pid).yes_votes > 0
        /\ Proposal(pid).no_votes > Proposal(pid).yes_votes
        /\ \A m \in Users : daoMember[m].votes_cast = 1

RECURSIVE SumStaked(_)
SumStaked(S) ==
    IF S = {} THEN 0
    ELSE LET m == CHOOSE x \in S : TRUE
         IN Staked(m) + SumStaked(S \ {m})

(* C34: a treasury against which all staking is done (staked_tokens of    *)
(* every other treasury is 0) has staked_tokens equal to the sum of        *)
(* staked_balance over all members, so the quorum computed by              *)
(* execute_proposal for it is 20% (floor) of what the members have staked; *)
(* before any treasury exists nothing is staked.                           *)
C34_StakedTokensIsSumOfStakes ==
    /\ \A t \in DOMAIN daoTreasury :
          (\A o \in DOMAIN daoTreasury \ {t} :
               daoTreasury[o].staked_tokens = 0)
              => /\ daoTreasury[t].staked_tokens
                        = SumStaked(DOMAIN daoMember)
                 /\ quorum_required(daoTreasury[t])
                        = (SumStaked(DOMAIN daoMember) * 20) \div 100
    /\ DOMAIN daoTreasury = {} => SumStaked(DOMAIN daoMember) = 0

C34_Witness ==
    /\ DOMAIN daoTreasury = {TreasuryAddr, create_resource_address("a3", "dao")}
    /\ "a2" \in DOMAIN daoMember
    /\ Staked("a3") = 900
    /\ Staked("a2") = 52
    /\ Treasury.staked_tokens = 952
    /\ quorum_required(Treasury) = 190

(* C32: get_proposal_info for an id >= proposal_count yields the table's   *)
(* not-found abort and no record (the client's fetchProposal rejects with  *)
(* it), and keeps yielding it across every step until the step that        *)
(* creates the proposal with that id, after which the stored fields are    *)
(* returned; for an id < proposal_count the stored fields are returned.    *)
C32_UnknownProposalNotFound ==
    [][HasTreasury
          => \A pid \in ProposalIds :
                LET info == get_proposal_info(TreasuryAddr, pid)
                    created == Creates /\ result'.proposal_id = pid
                IN
                /\ pid >= Treasury.proposal_count
                      => /\ info = [abort |-> ETABLE_NOT_FOUND]
                         /\ fetchProposal(pid) = [thrown |-> ETABLE_NOT_FOUND]
                         /\ ~created
                               => get_proposal_info(TreasuryAddr, pid)' = info
                         /\ created
                               => /\ get_proposal_info(TreasuryAddr, pid)'.abort
                                         = OK
                                  /\ fetchProposal(pid)'.id = pid
                                  /\ fetchProposal(pid)'.status = STATUS_OPEN
                /\ pid < Treasury.proposal_count
                      => /\ info.abort = OK
                         /\ info.value =
                              <<Proposal(pid).title, Proposal(pid).category,
                                Proposal(pid).requested_amount,
                                Proposal(pid).yes_votes,
                                Proposal(pid).no_votes, Proposal(pid).status,
                                Proposal(pid).voting_end_time,
                                Proposal(pid).executed,
                                Proposal(pid).proposer>>]_vars

C32_Witness ==
    /\ HasTreasury
    /\ Treasury.proposal_count = 1
    /\ result.op = "vote_on_proposal"
    /\ get_proposal_info(TreasuryAddr, 0).abort = OK
    /\ fetchProposal(0).yesVotes > 0
    /\ get_proposal_info(TreasuryAddr, 1) = [abort |-> ETABLE_NOT_FOUND]
    /\ now > 0

(* C37: execute_proposal computes the quorum from staked_tokens of the     *)
(* treasury as it is in the state of the execute call: it resolves to      *)
(* QuorumNotMet exactly when yes_votes + no_votes is below                 *)
(* floor(staked_tokens * 20 / 100) of that state; a stake leaves the       *)
(* proposals as they are and raises that quorum, so a proposal whose votes *)
(* met the quorum when voting closed is resolved QuorumNotMet after a      *)
(* later stake that lifts the quorum above its votes.                      *)
C37_QuorumAtExecutionTime ==
    [][HasTreasury
          => /\ \A pid \in ProposalIds :
                   (Exists(pid) /\ Executes(pid))
                       => (Treasury'.proposals[pid].status
                               = STATUS_QUORUM_NOT_MET
                             <=> TotalVotes(pid)
                                    < (Treasury.staked_tokens * 20) \div 100)
             /\ result'.op = "stake_tokens"
                   => /\ Treasury'.proposals = Treasury.proposals
                      /\ Quorum' = ((Treasury.staked_tokens
                                       + result'.events[1].amount) * 20)
                                     \div 100
                      /\ \A pid \in ProposalIds :
                            (Eligible(pid)' /\ TotalVotes(pid)' < Quorum')
                                => /\ execute_proposal_abort(TreasuryAddr,
                                                             pid)' = OK
                                   /\ execute_branch(Treasury',
                                          Treasury'.proposals[pid])
                                        = "quorum_not_met"]_vars

C37_Witness ==
    \E pid \in ProposalIds :
        /\ Exists(pid)
        /\ result.op = "execute_proposal"
        /\ result.proposal_id = pid
        /\ Proposal(pid).status = STATUS_QUORUM_NOT_MET
        /\ Proposal(pid).yes_votes > Proposal(pid).no_votes
        /\ DOMAIN Proposal(pid).voters = {"a2"}
        /\ Proposal(pid).voters["a2"] = 1
        /\ Staked("a2") = Treasury.staked_tokens
        /\ Staked("a2") >= 100
        /\ TotalVotes(pid) < Quorum

(* C38: what a committed execute_proposal does is fixed by the proposal    *)
(* and the state, whoever the caller is: the new status, the debit of      *)
(* total_funds, the coin moved from the treasury to the recipient of the   *)
(* proposal and the event are the same for every caller, the abort code    *)
(* does not take the caller, and no member record (the caller's included)  *)
(* and no coin balance other than the treasury's and the recipient's       *)
(* changes.                                                                *)
C38_ExecuteCallerIndependent ==
    [][\A pid \in ProposalIds :
          (Exists(pid) /\ Executes(pid))
              => LET p == Proposal(pid)
                     met == TotalVotes(pid) >= Quorum
                     passes == p.yes_votes > p.no_votes
                     amt == IF met /\ passes /\ p.category = CATEGORY_FUNDING
                            THEN p.requested_amount ELSE 0
                     status == IF ~met THEN STATUS_QUORUM_NOT_MET
                               ELSE IF passes THEN STATUS_FUNDED
                               ELSE STATUS_REJECTED
                     res == IF ~met THEN RESULT_QUORUM_NOT_MET
                            ELSE IF passes THEN RESULT_FUNDED
                            ELSE RESULT_REJECTED
                     debited == [coinStore EXCEPT ![TreasuryAddr] = @ - amt]
                 IN
                 /\ execute_proposal_abort(TreasuryAddr, pid) = OK
                 /\ daoTreasury' = [daoTreasury EXCEPT
                       ![TreasuryAddr].total_funds = @ - amt,
                       ![TreasuryAddr].proposals[pid].status = status,
                       ![TreasuryAddr].proposals[pid].executed = TRUE]
                 /\ coinStore' = [debited EXCEPT ![p.recipient] = @ + amt]
                 /\ result'.events = ExecutedEvent(pid, res, amt)
                 /\ daoMember' = daoMember
                 /\ now' = now]_vars

C38_Witness ==
    \E pid \in ProposalIds :
        /\ Exists(pid)
        /\ result.op = "execute_proposal"
        /\ result.proposal_id = pid
        /\ result.sender = "a3"
        /\ "a3" \notin DOMAIN daoMember
        /\ Treasury.admin # "a3"
        /\ Proposal(pid).proposer # "a3"
        /\ Proposal(pid).status = STATUS_FUNDED
        /\ Proposal(pid).recipient = "a2"
        /\ result.events[1].amount_transferred > 0
        /\ coinStore["a3"] = InitCoin

\* A passing Funding proposal that asks for more than total_funds.
Underfunded(pid) ==
    /\ Exists(pid)
    /\ Proposal(pid).status = STATUS_OPEN
    /\ Proposal(pid).category = CATEGORY_FUNDING
    /\ TotalVotes(pid) >= Quorum
    /\ Proposal(pid).yes_votes > Proposal(pid).no_votes
    /\ Proposal(pid).requested_amount > Treasury.total_funds

Resolved(pid) ==
    /\ Exists(pid)
    /\ Proposal(pid).status
           \in {STATUS_FUNDED, STATUS_REJECTED, STATUS_QUORUM_NOT_MET}

(* C39: from execution_time on, an execute call on an Open proposal        *)
(* commits, paused or not, unless the proposal is a Funding proposal with  *)
(* quorum met, yes > no and requested_amount > total_funds; with the clock *)
(* advancing and executions being submitted, every proposal is eventually  *)
(* resolved or is such an underfunded proposal from then on, Open for as   *)
(* long as no deposit covers it.                                           *)
C39_EveryProposalIsResolved ==
    /\ [](\A pid \in ProposalIds :
             /\ (Eligible(pid) /\ ~Underfunded(pid))
                   => execute_proposal_abort(TreasuryAddr, pid) = OK
             /\ (Eligible(pid) /\ Underfunded(pid))
                   => execute_proposal_abort(TreasuryAddr, pid) # OK)
    /\ \A pid \in ProposalIds :
          Exists(pid) ~> (Resolved(pid) \/ [](Underfunded(pid)))

Shown(message) ==
    \E i \in DOMAIN wallet.toasts : wallet.toasts[i].message = message

ShownTimes(message) ==
    Cardinality({i \in DOMAIN wallet.toasts :
                     wallet.toasts[i].message = message})

(* C40: the notification "Transaction confirmed!" is shown only after      *)
(* waitForTransaction observed the submitted transaction with              *)
(* success = true; it is not shown when the transaction was observed with  *)
(* success = false, when a polling request threw, or when the 30 attempts  *)
(* ran out: every call that got as far as the notification observed the    *)
(* success, and the notification was shown once per observed success.      *)
C40_ConfirmedOnlyAfterSuccess ==
    /\ \A i \in DOMAIN wallet.txns :
          (wallet.txns[i].hash # "none" /\ wallet.txns[i].pc = "returned")
              => wallet.txns[i].observed = "success"
    /\ ShownTimes("Transaction confirmed!") =
          Cardinality({i \in DOMAIN wallet.txns :
                           wallet.txns[i].observed = "success"})
====
